---- MODULE Spec2Model ----
(***************************************************************************)
(* Model of the pre-push review pipeline of claude_pr_reviewer:            *)
(*   GitCLI (diff cascade), ClaudeAIReviewer (one POST + heuristic         *)
(*   extraction), TerminalUI / PyQtUI (decision surface) and               *)
(*   PRReviewer.run (orchestration and exit code).                         *)
(* Texts are TLA+ strings; the string operations of the Python source      *)
(* (strip, lower, split, startswith, in, slicing) are computed character   *)
(* by character.                                                           *)
(***************************************************************************)
EXTENDS Integers, Sequences, FiniteSets, TLC

(***************************************************************************)
(* Python string primitives                                                *)
(***************************************************************************)
NL == "\n"

Whitespace == {" ", "\n", "\t", "\r"}

CharAt(s, i) == SubSeq(s, i, i)

Min(a, b) == IF a < b THEN a ELSE b

\* str.lower() on one character (ASCII letters)
LowerChar(c) ==
    CASE c = "A" -> "a" [] c = "B" -> "b" [] c = "C" -> "c" [] c = "D" -> "d"
      [] c = "E" -> "e" [] c = "F" -> "f" [] c = "G" -> "g" [] c = "H" -> "h"
      [] c = "I" -> "i" [] c = "J" -> "j" [] c = "K" -> "k" [] c = "L" -> "l"
      [] c = "M" -> "m" [] c = "N" -> "n" [] c = "O" -> "o" [] c = "P" -> "p"
      [] c = "Q" -> "q" [] c = "R" -> "r" [] c = "S" -> "s" [] c = "T" -> "t"
      [] c = "U" -> "u" [] c = "V" -> "v" [] c = "W" -> "w" [] c = "X" -> "x"
      [] c = "Y" -> "y" [] c = "Z" -> "z" [] OTHER -> c

\* s.lower(), computed by halves
RECURSIVE Lower(_)
Lower(s) == IF Len(s) = 0 THEN ""
            ELSE IF Len(s) = 1 THEN LowerChar(s)
            ELSE LET h == Len(s) \div 2
                 IN Lower(SubSeq(s, 1, h)) \o Lower(SubSeq(s, h + 1, Len(s)))

\* sub in s
Contains(sub, s) ==
    \E i \in 1..(Len(s) - Len(sub) + 1) : SubSeq(s, i, i + Len(sub) - 1) = sub

\* s.startswith(p)
StartsWith(s, p) == Len(s) >= Len(p) /\ SubSeq(s, 1, Len(p)) = p

\* s[:n]
Prefix(s, n) == SubSeq(s, 1, Min(n, Len(s)))

\* s[n:]
DropFirst(s, n) == SubSeq(s, n + 1, Len(s))

RECURSIVE LStrip(_)
LStrip(s) == IF Len(s) > 0 /\ CharAt(s, 1) \in Whitespace
             THEN LStrip(SubSeq(s, 2, Len(s))) ELSE s

RECURSIVE RStrip(_)
RStrip(s) == IF Len(s) > 0 /\ CharAt(s, Len(s)) \in Whitespace
             THEN RStrip(SubSeq(s, 1, Len(s) - 1)) ELSE s

\* s.strip()
Strip(s) == RStrip(LStrip(s))

\* index of the first newline of s, 0 when there is none
FirstNL(s) ==
    LET at == {i \in 1..Len(s) : CharAt(s, i) = NL}
    IN IF at = {} THEN 0 ELSE CHOOSE i \in at : \A j \in at : i <= j

\* s.split('\n')
RECURSIVE Split(_)
Split(s) == LET k == FirstNL(s)
            IN IF k = 0 THEN <<s>>
               ELSE <<SubSeq(s, 1, k - 1)>> \o Split(SubSeq(s, k + 1, Len(s)))

\* seq[:n] on a list
Take(seq, n) == SubSeq(seq, 1, Min(n, Len(seq)))

\* '\n'.join(lines)
RECURSIVE Join(_)
Join(lines) == IF Len(lines) = 0 THEN ""
               ELSE IF Len(lines) = 1 THEN lines[1]
               ELSE lines[1] \o NL \o Join(Tail(lines))

(***************************************************************************)
(* ClaudeAIReviewer: heuristic extraction                                  *)
(***************************************************************************)
ListCap == 10
CriticalWindow == 100
MinScanLen == 10
CriticalMarker == "CRITICAL ISSUES FOUND"
CriticalEntry == "CRITICAL ISSUES FOUND - Please fix before committing"

\* variant: only the dash is a bullet marker
IsBullet_DashOnly(line) == StartsWith(line, "- ")
\* `line.startswith('- ') or line.startswith('* ')`
IsBullet(line) == StartsWith(line, "- ") \/ StartsWith(line, "* ")

\* variant: a heading does not close the section
SuggestionsLine_NoHeading(st, line) ==
    LET low == Lower(line)
    IN IF Contains("suggestion", low) \/ Contains("improvement", low)
       THEN [st EXCEPT !.on = TRUE]
       ELSE IF st.on /\ IsBullet(line)
       THEN [st EXCEPT !.out = Append(@, Strip(DropFirst(line, 2)))]
       ELSE IF st.on /\ (\/ line = ""
                         \/ Contains("issue", low)
                         \/ Contains("question", low)
                         \/ Contains("summary", low))
       THEN [st EXCEPT !.on = FALSE]
       ELSE st

\* one iteration of the for-loop of _extract_suggestions;
\* st = [on |-> in_suggestions_section, out |-> suggestions]
SuggestionsLine(st, line) ==
    LET low == Lower(line)
    IN IF Contains("suggestion", low) \/ Contains("improvement", low)
       THEN [st EXCEPT !.on = TRUE]
       ELSE IF st.on /\ IsBullet(line)
       THEN [st EXCEPT !.out = Append(@, Strip(DropFirst(line, 2)))]
       ELSE IF st.on /\ (\/ StartsWith(line, "#")
                         \/ line = ""
                         \/ Contains("issue", low)
                         \/ Contains("question", low)
                         \/ Contains("summary", low))
       THEN [st EXCEPT !.on = FALSE]
       ELSE st

\* variant: a header of the suggestions list always closes the section
IssuesLine_ClosesOnImprovement(st, line) ==
    LET low == Lower(line)
    IN IF Contains("issue", low) \/ Contains("problem", low) \/ Contains("bug", low)
       THEN [st EXCEPT !.on = TRUE]
       ELSE IF st.on /\ IsBullet(line)
       THEN [st EXCEPT !.out = Append(@, Strip(DropFirst(line, 2)))]
       ELSE IF st.on /\ (\/ StartsWith(line, "#")
                         \/ line = ""
                         \/ Contains("suggestion", low)
                         \/ Contains("improvement", low)
                         \/ Contains("question", low)
                         \/ Contains("summary", low))
       THEN [st EXCEPT !.on = FALSE]
       ELSE st

\* variant: the bullet is appended with its marker
IssuesLine_KeepMarker(st, line) ==
    LET low == Lower(line)
    IN IF Contains("issue", low) \/ Contains("problem", low) \/ Contains("bug", low)
       THEN [st EXCEPT !.on = TRUE]
       ELSE IF st.on /\ IsBullet(line)
       THEN [st EXCEPT !.out = Append(@, Strip(line))]
       ELSE IF st.on /\ (\/ StartsWith(line, "#")
                         \/ line = ""
                         \/ Contains("suggestion", low)
                         \/ Contains("question", low)
                         \/ Contains("summary", low))
       THEN [st EXCEPT !.on = FALSE]
       ELSE st

\* one iteration of the for-loop of _extract_issues
IssuesLine(st, line) ==
    LET low == Lower(line)
    IN IF Contains("issue", low) \/ Contains("problem", low) \/ Contains("bug", low)
       THEN [st EXCEPT !.on = TRUE]
       ELSE IF st.on /\ IsBullet(line)
       THEN [st EXCEPT !.out = Append(@, Strip(DropFirst(line, 2)))]
       ELSE IF st.on /\ (\/ StartsWith(line, "#")
                         \/ line = ""
                         \/ Contains("suggestion", low)
                         \/ Contains("question", low)
                         \/ Contains("summary", low))
       THEN [st EXCEPT !.on = FALSE]
       ELSE st

RECURSIVE SuggestionsPass(_, _)
SuggestionsPass(st, lines) ==
    IF Len(lines) = 0 THEN st
    ELSE SuggestionsPass(SuggestionsLine(st, Head(lines)), Tail(lines))

RECURSIVE IssuesPass(_, _)
IssuesPass(st, lines) ==
    IF Len(lines) = 0 THEN st
    ELSE IssuesPass(IssuesLine(st, Head(lines)), Tail(lines))

\* variant: the scan knows "suggest" only
SuggestionKeyword_SuggestOnly(line) ==
    Contains("suggest", Lower(line)) /\ Len(line) > MinScanLen

\* the test of the second loop of _extract_suggestions
SuggestionKeyword(line) ==
    LET low == Lower(line)
    IN (Contains("suggest", low) \/ Contains("could", low)
          \/ Contains("would be better", low)) /\ Len(line) > MinScanLen

\* variant: the length is taken after strip()
IssueKeyword_StrippedLength(line) ==
    LET low == Lower(line)
    IN (Contains("issue", low) \/ Contains("bug", low)
          \/ Contains("error", low) \/ Contains("fix", low))
         /\ Len(Strip(line)) > MinScanLen

\* the test of the second loop of _extract_issues
IssueKeyword(line) ==
    LET low == Lower(line)
    IN (Contains("issue", low) \/ Contains("bug", low)
          \/ Contains("error", low) \/ Contains("fix", low)) /\ Len(line) > MinScanLen

\* the second loop of _extract_suggestions (whole-text keyword scan)
RECURSIVE SuggestionsScan(_)
SuggestionsScan(lines) ==
    IF Len(lines) = 0 THEN <<>>
    ELSE (IF SuggestionKeyword(Head(lines)) THEN <<Strip(Head(lines))>> ELSE <<>>)
           \o SuggestionsScan(Tail(lines))

\* the second loop of _extract_issues (whole-text keyword scan)
RECURSIVE IssuesScan(_)
IssuesScan(lines) ==
    IF Len(lines) = 0 THEN <<>>
    ELSE (IF IssueKeyword(Head(lines)) THEN <<Strip(Head(lines))>> ELSE <<>>)
           \o IssuesScan(Tail(lines))

\* the list of _extract_suggestions before the final slice
SuggestionsUncapped(review_text) ==
    LET lines    == Split(review_text)
        captured == SuggestionsPass([on |-> FALSE, out |-> <<>>], lines).out
    IN IF captured = <<>> THEN SuggestionsScan(lines) ELSE captured

\* variant: the synthetic entry is appended instead of inserted at index 0
IssuesUncapped_Append(review_text) ==
    LET lines    == Split(review_text)
        captured == IssuesPass([on |-> FALSE, out |-> <<>>], lines).out
        found    == IF captured = <<>> THEN IssuesScan(lines) ELSE captured
    IN IF Contains(CriticalMarker, Prefix(review_text, CriticalWindow))
       THEN found \o <<CriticalEntry>> ELSE found

\* the list of _extract_issues before the final slice
IssuesUncapped(review_text) ==
    LET lines    == Split(review_text)
        captured == IssuesPass([on |-> FALSE, out |-> <<>>], lines).out
        found    == IF captured = <<>> THEN IssuesScan(lines) ELSE captured
    IN IF Contains(CriticalMarker, Prefix(review_text, CriticalWindow))
       THEN <<CriticalEntry>> \o found ELSE found

_extract_suggestions(review_text) ==
    IF review_text = "" THEN <<>> ELSE Take(SuggestionsUncapped(review_text), ListCap)

\* variant: the list is sliced before the synthetic entry is inserted
_extract_issues_SliceFirst(review_text) ==
    IF review_text = "" THEN <<>>
    ELSE LET lines    == Split(review_text)
             captured == IssuesPass([on |-> FALSE, out |-> <<>>], lines).out
             found    == IF captured = <<>> THEN IssuesScan(lines) ELSE captured
         IN IF Contains(CriticalMarker, Prefix(review_text, CriticalWindow))
            THEN <<CriticalEntry>> \o Take(found, ListCap) ELSE Take(found, ListCap)

_extract_issues(review_text) ==
    IF review_text = "" THEN <<>> ELSE Take(IssuesUncapped(review_text), ListCap)


(***************************************************************************)
(* Bounds of the model                                                     *)
(***************************************************************************)
\* re-prompts of the terminal loop after which the user gives a valid answer
MaxInvalidInputs == 2
\* times the user answers No in the confirmation dialog before deciding
MaxDeclines == 2

(***************************************************************************)
(* State                                                                   *)
(***************************************************************************)
VARIABLES
    pc,            \* position of PRReviewer.run
    gitpc,         \* position of GitCLI.get_diff: the git command to run next
    diff,          \* local `diff` of get_diff (accumulated output)
    gitLog,        \* git commands run so far, with their outcome
    infoLog,       \* outcome of `git log -1` and `git rev-parse --abbrev-ref HEAD`
    run_diff,      \* local `diff` of run (what get_diff returned)
    commit_msg,    \* local `commit_msg` of run
    branch_name,   \* local `branch_name` of run
    review_data,   \* the dict returned by review_code
    review_args,   \* the arguments review_code was called with
    calls,         \* number of calls of each collaborator in this run
    posts,         \* outcome of each HTTP POST issued, in order
    ui,            \* which decision surface the reviewer was built with
    has_critical,  \* local `has_critical` of show_review
    inputs,        \* lines read by input() in the terminal loop
    window,        \* PyQt window: "none", "open", "confirm", "closed"
    clicks,        \* what the user did in the PyQt window, in order
    declines,      \* No answers given in the confirmation dialog
    user_decision, \* PyQtUI.user_decision
    proceed,       \* local `proceed` of run: "unset", "True", "False"
    error_msg,     \* message of the exception being handled by run
    errors,        \* messages displayed by show_error
    exit_code,     \* value returned by run, -1 while running
    push,          \* what the pre-push hook lets git do
    x_text,        \* extraction alone: the review text given
    x_form,        \* extraction alone: how x_text was composed
    x_pc,          \* extraction alone: "suggestions", "issues", "done"
    x_suggestions, \* extraction alone: result of _extract_suggestions
    x_issues,      \* extraction alone: result of _extract_issues
    cfg_pc,        \* ConfigManager: "idle", "start", "ready", "failed"
    cfg_start,     \* the configuration file as found by __init__
    cfg_file,      \* the configuration file
    cfg_env,       \* the environment variable CLAUDE_API_KEY
    cfg_config,    \* ConfigManager.config
    cfg_prompts,   \* lines asked for with input(), as answered
    cfg_saves,     \* outcome of each _save_config
    cfg_sets       \* the set(key, value) calls made

vars == <<pc, gitpc, diff, gitLog, infoLog, run_diff, commit_msg, branch_name,
          review_data, review_args, calls, posts, ui, has_critical, inputs,
          window, clicks, declines, user_decision, proceed, error_msg, errors, exit_code, push,
          x_text, x_form, x_pc, x_suggestions, x_issues,
          cfg_pc, cfg_start, cfg_file, cfg_env, cfg_config, cfg_prompts,
          cfg_saves, cfg_sets>>

runVars == <<pc, gitpc, diff, gitLog, infoLog, run_diff, commit_msg, branch_name,
             review_data, review_args, calls, posts, ui, has_critical, inputs,
             window, clicks, declines, user_decision, proceed, error_msg, errors,
             exit_code, push>>
xVars   == <<x_text, x_form, x_pc, x_suggestions, x_issues>>
cfgVars == <<cfg_pc, cfg_start, cfg_file, cfg_env, cfg_config, cfg_prompts,
             cfg_saves, cfg_sets>>
gitVars == <<gitpc, diff, gitLog, infoLog, run_diff>>
diffVars == <<gitpc, diff, gitLog, run_diff>>
uiVars  == <<has_critical, inputs, window, clicks, declines, user_decision,
            proceed>>

Collaborators == {"get_diff", "get_commit_message", "get_branch_name",
                  "review_code", "post", "show_review", "show_error"}

NoReview == [absent |-> TRUE]
NoArgs   == [absent |-> TRUE]

Called(calls_, name) == [calls_ EXCEPT ![name] = @ + 1]

\* variant: every value is truthy
PyBool_Truthy(b) == "True"

\* the value of a local that holds a Python bool, "unset" before assignment
PyBool(b) == IF b THEN "True" ELSE "False"

(***************************************************************************)
(* GitCLI.get_diff                                                         *)
(***************************************************************************)
GitCommands == <<"diff --staged", "rev-parse HEAD", "diff",
                 "rev-parse @{u}", "diff @{u}..HEAD",
                 "diff origin/main...HEAD", "diff HEAD~1..HEAD">>

DiffCommands == {"diff --staged", "diff", "diff @{u}..HEAD",
                 "diff origin/main...HEAD", "diff HEAD~1..HEAD"}

\* what a diff command can print: nothing, whitespace only, a change
DiffOutputs == {"", " \n", "+a\n"}
RefOutputs  == {"origin/dev\n"}

GitOutputs(cmd) == IF cmd \in DiffCommands THEN DiffOutputs ELSE RefOutputs

\* result of subprocess.check_output: output text (exit 0),
\* CalledProcessError (non-zero exit) or another exception (git not runnable)
GitResults(cmd) ==
    {[kind |-> "ok", out |-> o] : o \in GitOutputs(cmd)}
      \cup {[kind |-> "fail", out |-> ""], [kind |-> "raise", out |-> ""]}

\* variant: the text is compared with the empty text, without strip()
IsBlank_NoStrip(s) == s = ""
\* `not s.strip()`
IsBlank(s) == Strip(s) = ""

\* `if x.strip(): diff += x`
Accumulate(d, res) ==
    IF res.kind = "ok" /\ ~IsBlank(res.out) THEN d \o res.out ELSE d

\* variant: a failing origin/main diff ends the cascade
GitNext_StopAfterOrigin(cmd, res, d) ==
    CASE cmd = "diff --staged" ->
           IF IsBlank(d) THEN "rev-parse HEAD" ELSE "return"
      [] cmd = "rev-parse HEAD" ->
           IF res.kind = "ok" THEN "rev-parse @{u}" ELSE "diff"
      [] cmd = "diff" -> "return"
      [] cmd = "rev-parse @{u}" ->
           IF res.kind = "ok" THEN "diff @{u}..HEAD" ELSE "diff origin/main...HEAD"
      [] cmd = "diff @{u}..HEAD" ->
           IF res.kind = "ok" THEN "return" ELSE "diff origin/main...HEAD"
      [] cmd = "diff origin/main...HEAD" -> "return"
      [] cmd = "diff HEAD~1..HEAD" -> "return"

\* variant: the HEAD check is made whatever the staged diff gave
GitNext_AlwaysHeadCheck(cmd, res, d) ==
    CASE cmd = "diff --staged" -> "rev-parse HEAD"
      [] cmd = "rev-parse HEAD" ->
           IF res.kind = "ok" THEN "rev-parse @{u}" ELSE "diff"
      [] cmd = "diff" -> "return"
      [] cmd = "rev-parse @{u}" ->
           IF res.kind = "ok" THEN "diff @{u}..HEAD" ELSE "diff origin/main...HEAD"
      [] cmd = "diff @{u}..HEAD" ->
           IF res.kind = "ok" THEN "return" ELSE "diff origin/main...HEAD"
      [] cmd = "diff origin/main...HEAD" ->
           IF res.kind = "ok" THEN "return" ELSE "diff HEAD~1..HEAD"
      [] cmd = "diff HEAD~1..HEAD" -> "return"

\* variant: a failed working-tree diff goes on to the last-commit diff
GitNext_WorkingTreeFallsBack(cmd, res, d) ==
    CASE cmd = "diff --staged" ->
           IF IsBlank(d) THEN "rev-parse HEAD" ELSE "return"
      [] cmd = "rev-parse HEAD" ->
           IF res.kind = "ok" THEN "rev-parse @{u}" ELSE "diff"
      [] cmd = "diff" ->
           IF res.kind = "ok" THEN "return" ELSE "diff HEAD~1..HEAD"
      [] cmd = "rev-parse @{u}" ->
           IF res.kind = "ok" THEN "diff @{u}..HEAD" ELSE "diff origin/main...HEAD"
      [] cmd = "diff @{u}..HEAD" ->
           IF res.kind = "ok" THEN "return" ELSE "diff origin/main...HEAD"
      [] cmd = "diff origin/main...HEAD" ->
           IF res.kind = "ok" THEN "return" ELSE "diff HEAD~1..HEAD"
      [] cmd = "diff HEAD~1..HEAD" -> "return"

\* control flow of get_diff after command cmd ended with res, d being the
\* value of `diff` after the command: the next command, or "return"
GitNext(cmd, res, d) ==
    CASE cmd = "diff --staged" ->
           IF IsBlank(d) THEN "rev-parse HEAD" ELSE "return"
      [] cmd = "rev-parse HEAD" ->
           IF res.kind = "ok" THEN "rev-parse @{u}" ELSE "diff"
      [] cmd = "diff" -> "return"
      [] cmd = "rev-parse @{u}" ->
           IF res.kind = "ok" THEN "diff @{u}..HEAD" ELSE "diff origin/main...HEAD"
      [] cmd = "diff @{u}..HEAD" ->
           IF res.kind = "ok" THEN "return" ELSE "diff origin/main...HEAD"
      [] cmd = "diff origin/main...HEAD" ->
           IF res.kind = "ok" THEN "return" ELSE "diff HEAD~1..HEAD"
      [] cmd = "diff HEAD~1..HEAD" -> "return"

\* value returned by get_diff when it returns after cmd
GitReturn(cmd, res, d) ==
    IF cmd = "diff" THEN (IF res.kind = "ok" THEN res.out ELSE "") ELSE d

ExceptionText == "[Errno 2] No such file or directory"
\* str(e) of len(None) in review_code and of input() at end of input
TypeErrorText == "object of type 'NoneType' has no len()"
EOFErrorText  == "EOF when reading a line"
\* str(KeyError(0)) of result["content"][0] on an object
KeyErrorText  == "0"

\* variant: the message of the handler leaves the exception text out
UnexpectedError_NoText(e) == "Unexpected error"
\* error_msg = f"Unexpected error: {str(e)}" of the handler of run
UnexpectedError(e) == "Unexpected error: " \o e

\* one subprocess.check_output call of get_diff
GitCommand(res) ==
    /\ pc = "get_diff"
    /\ gitpc # "return"
    /\ res \in GitResults(gitpc)
    /\ gitLog' = Append(gitLog, [cmd |-> gitpc, kind |-> res.kind])
    /\ calls' = IF gitLog = <<>> THEN Called(calls, "get_diff") ELSE calls
    /\ IF res.kind = "raise"
       THEN /\ pc' = "except"
            /\ error_msg' = UnexpectedError(ExceptionText)
            /\ UNCHANGED <<gitpc, diff, run_diff>>
       ELSE LET d   == IF gitpc \in DiffCommands \ {"diff"}
                       THEN Accumulate(diff, res) ELSE diff
                nxt == GitNext(gitpc, res, d)
            IN /\ diff' = d
               /\ gitpc' = nxt
               /\ IF nxt = "return"
                  THEN /\ run_diff' = GitReturn(gitpc, res, d)
                       /\ pc' = "check_diff"
                  ELSE UNCHANGED <<run_diff, pc>>
               /\ UNCHANGED error_msg
    /\ UNCHANGED <<commit_msg, branch_name, review_data, review_args, ui,
                   errors, exit_code, push, infoLog>>
    /\ UNCHANGED uiVars
    /\ UNCHANGED <<posts, xVars, cfgVars>>

(***************************************************************************)
(* PRReviewer.run: diff check, commit message, branch name                 *)
(***************************************************************************)
\* variant: the diff is compared with the empty text, without strip()
NothingToReview_NoStrip(d) == d = ""

\* `not diff.strip()`
NothingToReview(d) == Strip(d) = ""

\* `if not diff.strip(): return 0`
CheckDiff ==
    /\ pc = "check_diff"
    /\ IF NothingToReview(run_diff)
       THEN /\ exit_code' = 0
            /\ pc' = "returned"
       ELSE /\ pc' = "get_commit_message"
            /\ UNCHANGED exit_code
    /\ UNCHANGED <<commit_msg, branch_name, review_data, review_args, calls,
                   ui, error_msg, errors, push>>
    /\ UNCHANGED gitVars
    /\ UNCHANGED uiVars
    /\ UNCHANGED <<posts, xVars, cfgVars>>

CommitOutputs == {"Fix parser\n\n"}
BranchOutputs == {"feature/x\n"}

TextResults(outs) ==
    {[kind |-> "ok", out |-> o] : o \in outs}
      \cup {[kind |-> "fail", out |-> ""], [kind |-> "raise", out |-> ""]}

\* variant: the empty text instead of the placeholder
TextOrPlaceholder_Empty(res, placeholder) ==
    IF res.kind = "ok" THEN Strip(res.out) ELSE ""
\* GitCLI.get_commit_message / get_branch_name: output stripped, or the
\* placeholder when the command exits non-zero
TextOrPlaceholder(res, placeholder) ==
    IF res.kind = "ok" THEN Strip(res.out) ELSE placeholder

GetCommitMessage(res) ==
    /\ pc = "get_commit_message"
    /\ res \in TextResults(CommitOutputs)
    /\ calls' = Called(calls, "get_commit_message")
    /\ infoLog' = Append(infoLog, [cmd |-> "log -1", kind |-> res.kind])
    /\ IF res.kind = "raise"
       THEN /\ pc' = "except"
            /\ error_msg' = UnexpectedError(ExceptionText)
            /\ UNCHANGED commit_msg
       ELSE /\ commit_msg' = TextOrPlaceholder(res, "Initial commit")
            /\ pc' = "get_branch_name"
            /\ UNCHANGED error_msg
    /\ UNCHANGED <<branch_name, review_data, review_args, ui, errors,
                   exit_code, push>>
    /\ UNCHANGED diffVars
    /\ UNCHANGED uiVars
    /\ UNCHANGED <<posts, xVars, cfgVars>>

GetBranchName(res) ==
    /\ pc = "get_branch_name"
    /\ res \in TextResults(BranchOutputs)
    /\ calls' = Called(calls, "get_branch_name")
    /\ infoLog' = Append(infoLog, [cmd |-> "rev-parse --abbrev-ref HEAD",
                                   kind |-> res.kind])
    /\ IF res.kind = "raise"
       THEN /\ pc' = "except"
            /\ error_msg' = UnexpectedError(ExceptionText)
            /\ UNCHANGED branch_name
       ELSE /\ branch_name' = TextOrPlaceholder(res, "main")
            /\ pc' = "review_code"
            /\ UNCHANGED error_msg
    /\ UNCHANGED <<commit_msg, review_data, review_args, ui, errors,
                   exit_code, push>>
    /\ UNCHANGED diffVars
    /\ UNCHANGED uiVars
    /\ UNCHANGED <<posts, xVars, cfgVars>>

(***************************************************************************)
(* ClaudeAIReviewer.review_code                                            *)
(***************************************************************************)
FallbackText == "Could not extract review text from API response."

\* review texts the API answers with in the pipeline
ReviewTexts == {"Issues:\n- A\n- B\n\nSuggestions:\n- C\n",
                "CRITICAL ISSUES FOUND\n- Token is logged\n",
                "Issues:\n- Critical race in cache\n",
                "Looks good to me."}

\* response.json(): the content list of the documented shape, and the
\* shapes that deviate from it
TextPayload(t) ==
    [content |-> [kind |-> "list", items |-> <<[type |-> "text", text |-> t]>>]]

Payloads ==
    {TextPayload(t) : t \in ReviewTexts}
      \cup {[type |-> "error"],
            [content |-> [kind |-> "list", items |-> <<>>]],
            [content |-> [kind |-> "list", items |-> <<[type |-> "image"]>>]],
            [content |-> [kind |-> "null"]],
            [content |-> [kind |-> "dict", size |-> 0]],
            [content |-> [kind |-> "dict", size |-> 1]]}

\* outcome of requests.post + raise_for_status + json
HttpResponses ==
    {[kind |-> "ok", payload |-> p] : p \in Payloads}
      \cup {[kind |-> "transport",
             msg |-> "HTTPSConnectionPool(host='api.anthropic.com', port=443): Max retries exceeded"],
            [kind |-> "http",
             msg |-> "500 Server Error: Internal Server Error for url: https://api.anthropic.com/v1/messages"]}

\* the condition of line 55 raises TypeError on len(None) and KeyError on
\* result["content"][0] when content is a non-empty object
PayloadRaises(payload) ==
    /\ "content" \in DOMAIN payload
    /\ \/ payload.content.kind = "null"
       \/ payload.content.kind = "dict" /\ payload.content.size > 0

\* str(e) of that exception
PayloadExceptionText(payload) ==
    IF payload.content.kind = "null" THEN TypeErrorText ELSE KeyErrorText

\* `"content" in result and len(result["content"]) > 0
\*    and "text" in result["content"][0]`
HasText(payload) ==
    /\ "content" \in DOMAIN payload
    /\ payload.content.kind = "list"
    /\ Len(payload.content.items) > 0
    /\ "text" \in DOMAIN payload.content.items[1]

ExtractText(payload) ==
    IF HasText(payload) THEN payload.content.items[1].text ELSE FallbackText

\* the empty dict {}
EmptyDict == [k \in {} |-> ""]

NoChangesResult ==
    [review_text |-> "No changes to review.", suggestions |-> <<>>,
     issues |-> <<>>, raw_response |-> EmptyDict, diff |-> ""]

SuccessResult(d, payload) ==
    LET review_text == ExtractText(payload)
    IN [review_text |-> review_text,
        suggestions |-> _extract_suggestions(review_text),
        issues      |-> _extract_issues(review_text),
        raw_response |-> payload,
        diff        |-> d]

\* variant: the failure is reported in review_text only
ErrorResult_NoKey(d, msg) ==
    [review_text |-> "Error calling Claude API: " \o msg,
     suggestions |-> <<>>, issues |-> <<>>, diff |-> d,
     raw_response |-> EmptyDict]

\* the dict built in `except requests.RequestException as e`
ErrorResult(d, msg) ==
    [error |-> msg,
     review_text |-> "Error calling Claude API: " \o msg,
     suggestions |-> <<>>, issues |-> <<>>, diff |-> d,
     raw_response |-> EmptyDict]

\* run: `review_data = self.ai_reviewer.review_code(diff, commit_msg, branch_name)`
ReviewCode(resp) ==
    /\ pc = "review_code"
    /\ resp \in HttpResponses
    /\ review_args' = [diff |-> run_diff, commit_msg |-> commit_msg,
                       branch |-> branch_name]
    /\ IF IsBlank(run_diff)
       THEN /\ calls' = Called(calls, "review_code")
            /\ review_data' = NoChangesResult
            /\ pc' = "check_error"
            /\ UNCHANGED <<posts, error_msg>>
       ELSE /\ calls' = Called(Called(calls, "review_code"), "post")
            /\ posts' = Append(posts, resp.kind)
            /\ IF resp.kind # "ok"
               THEN /\ review_data' = ErrorResult(run_diff, resp.msg)
                    /\ pc' = "check_error"
                    /\ UNCHANGED error_msg
               ELSE IF PayloadRaises(resp.payload)
               THEN /\ pc' = "except"
                    /\ error_msg' = UnexpectedError(PayloadExceptionText(resp.payload))
                    /\ UNCHANGED review_data
               ELSE /\ review_data' = SuccessResult(run_diff, resp.payload)
                    /\ pc' = "check_error"
                    /\ UNCHANGED error_msg
    /\ UNCHANGED <<commit_msg, branch_name, ui, errors, exit_code, push>>
    /\ UNCHANGED gitVars
    /\ UNCHANGED uiVars
    /\ UNCHANGED <<xVars, cfgVars>>

\* variant: the error field is never looked for
HasError_Never(rd) == FALSE

\* `"error" in review_data`
HasError(rd) == "error" \in DOMAIN rd

\* run: `if "error" in review_data: show_error(...); return 1`
CheckError ==
    /\ pc = "check_error"
    /\ IF HasError(review_data)
       THEN /\ calls' = Called(calls, "show_error")
            /\ errors' = Append(errors, "Error during review: " \o review_data.error)
            /\ exit_code' = 1
            /\ pc' = "returned"
       ELSE /\ pc' = "show_review"
            /\ UNCHANGED <<calls, errors, exit_code>>
    /\ UNCHANGED <<commit_msg, branch_name, review_data, review_args, ui,
                   error_msg, push>>
    /\ UNCHANGED gitVars
    /\ UNCHANGED uiVars
    /\ UNCHANGED <<posts, xVars, cfgVars>>

(***************************************************************************)
(* Decision surface                                                        *)
(***************************************************************************)
UIKinds == {"terminal", "pyqt", "pyqt_fallback"}

\* variant: the issue is searched without lower()
HasCritical_NoLower(rd) ==
    \E i \in 1..Len(rd.issues) : Contains("critical", rd.issues[i])

\* any("critical" in str(issue).lower() for issue in review_data.get("issues", []))
HasCritical(rd) ==
    \E i \in 1..Len(rd.issues) : Contains("critical", Lower(rd.issues[i]))

\* TerminalUI.show_review and PyQtUI._fallback_show_review up to the loop
TerminalShow ==
    /\ pc = "show_review"
    /\ ui \in {"terminal", "pyqt_fallback"}
    /\ calls' = Called(calls, "show_review")
    /\ has_critical' = HasCritical(review_data)
    /\ pc' = "prompt"
    /\ UNCHANGED <<commit_msg, branch_name, review_data, review_args, ui,
                   inputs, window, clicks, declines, user_decision, proceed,
                   error_msg, errors, exit_code, push>>
    /\ UNCHANGED gitVars
    /\ UNCHANGED <<posts, xVars, cfgVars>>

InputLines == {"y", "Y", "yes", "n", "no", "N", "maybe", ""}

\* variant: an unrecognised input is taken as a refusal
Answer_DefaultNo(line) ==
    LET response == Lower(line)
    IN IF response \in {"y", "yes"} THEN "True" ELSE "False"

\* variant: the input is compared without lower()
Answer_NoLower(line) ==
    IF line \in {"y", "yes"} THEN "True"
    ELSE IF line \in {"n", "no"} THEN "False"
    ELSE "again"

\* the outcome of one pass of the loop: return True, return False, or
\* "again" (re-prompt)
Answer(line) ==
    LET response == Lower(line)
    IN IF response \in {"y", "yes"} THEN "True"
       ELSE IF response \in {"n", "no"} THEN "False"
       ELSE "again"

\* one pass of `while True: response = input(...).lower() ...`
TerminalInput(line) ==
    /\ pc = "prompt"
    /\ line \in InputLines
    /\ Answer(line) = "again" => Len(inputs) < MaxInvalidInputs
    /\ inputs' = Append(inputs, line)
    /\ IF Answer(line) = "again"
       THEN UNCHANGED <<pc, proceed>>
       ELSE /\ proceed' = Answer(line)
            /\ pc' = "decide"
    /\ UNCHANGED <<commit_msg, branch_name, review_data, review_args, calls,
                   ui, has_critical, window, clicks, declines, user_decision,
                   error_msg, errors, exit_code, push>>
    /\ UNCHANGED gitVars
    /\ UNCHANGED <<posts, xVars, cfgVars>>

\* input() raises EOFError when standard input is exhausted
TerminalEOF ==
    /\ pc = "prompt"
    /\ pc' = "except"
    /\ error_msg' = UnexpectedError(EOFErrorText)
    /\ UNCHANGED <<commit_msg, branch_name, review_data, review_args, calls,
                   ui, errors, exit_code, push>>
    /\ UNCHANGED gitVars
    /\ UNCHANGED uiVars
    /\ UNCHANGED <<posts, xVars, cfgVars>>

\* the value show_review stores under a key that is missing
DefaultFor(key) ==
    CASE key = "review_text" -> "No review text available."
      [] key = "suggestions" -> <<>>
      [] key = "issues" -> <<>>
      [] key = "raw_response" -> EmptyDict

EnsuredKeys == {"review_text", "suggestions", "issues", "raw_response"}

\* variant: raw_response is reset whether present or not
EnsureKeys_ResetRaw(rd) ==
    [k \in DOMAIN rd \cup EnsuredKeys |->
        IF k \in DOMAIN rd /\ k # "raw_response" THEN rd[k] ELSE DefaultFor(k)]

\* `if "<key>" not in review_data: review_data["<key>"] = <default>`, on
\* the dict run holds (the isinstance test passes for every dict)
EnsureKeys(rd) ==
    [k \in DOMAIN rd \cup EnsuredKeys |->
        IF k \in DOMAIN rd THEN rd[k] ELSE DefaultFor(k)]

\* PyQtUI.show_review up to app.exec_(): built = FALSE when building or
\* showing the window raises inside the try block
PyQtShow(built) ==
    /\ pc = "show_review"
    /\ ui = "pyqt"
    /\ built \in BOOLEAN
    /\ calls' = Called(calls, "show_review")
    /\ user_decision' = FALSE
    /\ review_data' = EnsureKeys(review_data)
    /\ has_critical' = HasCritical(review_data')
    /\ IF built
       THEN /\ window' = "open"
            /\ pc' = "window"
            /\ UNCHANGED proceed
       ELSE /\ proceed' = PyBool(FALSE)
            /\ pc' = "decide"
            /\ UNCHANGED window
    /\ UNCHANGED <<commit_msg, branch_name, review_args, ui,
                   inputs, clicks, declines, error_msg, errors, exit_code, push>>
    /\ UNCHANGED gitVars
    /\ UNCHANGED <<posts, xVars, cfgVars>>

\* _on_decision(proceed) followed by the return of app.exec_()
OnDecision(p) ==
    /\ user_decision' = p
    /\ window' = "closed"
    /\ proceed' = PyBool(p)
    /\ pc' = "decide"

\* cancel_btn.clicked -> _on_decision(False)
ClickCancel ==
    /\ pc = "window"
    /\ window = "open"
    /\ clicks' = Append(clicks, "cancel")
    /\ OnDecision(FALSE)
    /\ UNCHANGED <<commit_msg, branch_name, review_data, review_args, calls,
                   ui, has_critical, inputs, declines, error_msg, errors,
                   exit_code, push>>
    /\ UNCHANGED gitVars
    /\ UNCHANGED <<posts, xVars, cfgVars>>

\* variant: the Proceed button is always connected to _on_decision(True)
ProceedNeedsConfirm_Never(critical) == FALSE

\* proceed_btn.clicked -> _confirm_proceed when has_critical,
\* else _on_decision(True)
ProceedNeedsConfirm(critical) == critical

ClickProceed ==
    /\ pc = "window"
    /\ window = "open"
    /\ clicks' = Append(clicks, "proceed")
    /\ IF ProceedNeedsConfirm(has_critical)
       THEN /\ window' = "confirm"
            /\ UNCHANGED <<user_decision, proceed, pc>>
       ELSE OnDecision(TRUE)
    /\ UNCHANGED <<commit_msg, branch_name, review_data, review_args, calls,
                   ui, has_critical, inputs, declines, error_msg, errors,
                   exit_code, push>>
    /\ UNCHANGED gitVars
    /\ UNCHANGED <<posts, xVars, cfgVars>>

\* _confirm_proceed: QMessageBox.warning answered Yes or No
ConfirmAnswer(yes) ==
    /\ pc = "window"
    /\ window = "confirm"
    /\ yes \in BOOLEAN
    /\ ~yes => declines < MaxDeclines
    /\ clicks' = Append(clicks, IF yes THEN "yes" ELSE "no")
    /\ IF yes
       THEN /\ OnDecision(TRUE)
            /\ UNCHANGED declines
       ELSE /\ window' = "open"
            /\ declines' = declines + 1
            /\ UNCHANGED <<user_decision, proceed, pc>>
    /\ UNCHANGED <<commit_msg, branch_name, review_data, review_args, calls,
                   ui, has_critical, inputs, error_msg, errors, exit_code, push>>
    /\ UNCHANGED gitVars
    /\ UNCHANGED <<posts, xVars, cfgVars>>

\* the window is closed without a button: app.exec_() returns
CloseWindow ==
    /\ pc = "window"
    /\ window = "open"
    /\ clicks' = Append(clicks, "close")
    /\ window' = "closed"
    /\ proceed' = PyBool(user_decision)
    /\ pc' = "decide"
    /\ UNCHANGED <<commit_msg, branch_name, review_data, review_args, calls,
                   ui, has_critical, inputs, declines, user_decision,
                   error_msg, errors, exit_code, push>>
    /\ UNCHANGED gitVars
    /\ UNCHANGED <<posts, xVars, cfgVars>>

(***************************************************************************)
(* PRReviewer.run: exit code, exception handler; the pre-push hook         *)
(***************************************************************************)
\* variant: the decision is not consulted
ExitCodeFor_AlwaysZero(p) == 0

ExitCodeFor(p) == IF p = "True" THEN 0 ELSE 1

\* run: `if proceed: return 0 else: return 1`
Decide ==
    /\ pc = "decide"
    /\ exit_code' = ExitCodeFor(proceed)
    /\ pc' = "returned"
    /\ UNCHANGED <<commit_msg, branch_name, review_data, review_args, calls,
                   ui, error_msg, errors, push>>
    /\ UNCHANGED gitVars
    /\ UNCHANGED uiVars
    /\ UNCHANGED <<posts, xVars, cfgVars>>

\* run: `except Exception as e: ... self.ui.show_error(error_msg); return 1`
HandleException ==
    /\ pc = "except"
    /\ calls' = Called(calls, "show_error")
    /\ errors' = Append(errors, error_msg)
    /\ exit_code' = 1
    /\ pc' = "returned"
    /\ UNCHANGED <<commit_msg, branch_name, review_data, review_args, ui,
                   error_msg, push>>
    /\ UNCHANGED gitVars
    /\ UNCHANGED uiVars
    /\ UNCHANGED <<posts, xVars, cfgVars>>

\* pre-push hook: `if [ $exit_code -ne 0 ]; then ... exit $exit_code`
HookExit ==
    /\ pc = "returned"
    /\ push' = IF exit_code # 0 THEN "blocked" ELSE "allowed"
    /\ pc' = "exited"
    /\ UNCHANGED <<commit_msg, branch_name, review_data, review_args, calls,
                   ui, error_msg, errors, exit_code>>
    /\ UNCHANGED gitVars
    /\ UNCHANGED uiVars
    /\ UNCHANGED <<posts, xVars, cfgVars>>

(***************************************************************************)
(* Specification of one hook run                                           *)
(***************************************************************************)
NoForm == [kind |-> "none", prefix |-> "", issues |-> <<>>,
           suggestions |-> <<>>, lines |-> <<>>]

RunInit ==
    /\ pc = "get_diff"
    /\ gitpc = "diff --staged"
    /\ diff = ""
    /\ gitLog = <<>>
    /\ infoLog = <<>>
    /\ run_diff = ""
    /\ commit_msg = ""
    /\ branch_name = ""
    /\ review_data = NoReview
    /\ review_args = NoArgs
    /\ calls = [c \in Collaborators |-> 0]
    /\ posts = <<>>
    /\ ui \in UIKinds
    /\ has_critical = FALSE
    /\ inputs = <<>>
    /\ window = "none"
    /\ clicks = <<>>
    /\ declines = 0
    /\ user_decision = FALSE
    /\ proceed = "unset"
    /\ error_msg = ""
    /\ errors = <<>>
    /\ exit_code = -1
    /\ push = "pending"

(***************************************************************************)
(* ConfigManager: values, file and environment                             *)
(***************************************************************************)
\* a configuration value with its Python type; v is its text
Value(t, v) == [t |-> t, v |-> v]

\* the dict of _create_default_config with the key filled in
DefaultConfig(api_key) ==
    [api_key       |-> Value("str", api_key),
     model         |-> Value("str", "claude-3-haiku-20240307"),
     max_diff_size |-> Value("int", "10000")]

NoConfig == [absent |-> TRUE]

\* the file: not there, not parseable as JSON, or a JSON object
Absent      == [kind |-> "absent"]
Corrupt     == [kind |-> "corrupt"]
JsonFile(c) == [kind |-> "json", content |-> c]

\* json.dump writes a tuple as an array
JsonValue(v) == IF v.t = "tuple" THEN Value("list", v.v) ELSE v

JsonDump(config) == [k \in DOMAIN config |-> JsonValue(config[k])]

\* json.dump raises TypeError on a value it cannot serialise
Serialisable(config) == \A k \in DOMAIN config : config[k].t # "set"

\* os.makedirs / open succeed or raise OSError
SaveOutcomes == {"ok", "oserror"}

\* what _save_config did: wrote the file, failed before writing, or failed
\* while writing (all exceptions are printed and swallowed)
SaveResult(config, out) ==
    IF out = "oserror" THEN "oserror"
    ELSE IF Serialisable(config) THEN "ok" ELSE "typeerror"

\* the file after _save_config(config); open(path, 'w') truncates the file
\* before json.dump raises
_save_config(file, config, out) ==
    CASE SaveResult(config, out) = "oserror" -> file
      [] SaveResult(config, out) = "typeerror" -> Corrupt
      [] OTHER -> JsonFile(JsonDump(config))

\* os.environ.get("CLAUDE_API_KEY"): None, or the text of the variable
EnvValues == {[set |-> FALSE, v |-> ""], [set |-> TRUE, v |-> ""],
              [set |-> TRUE, v |-> "sk-env"]}

\* `if not api_key`
NeedsPrompt(env) == ~env.set \/ env.v = ""

\* input(): a line typed by the user, or EOFError at end of input
PromptResults == {[kind |-> "line", v |-> "sk-typed"],
                  [kind |-> "line", v |-> " sk-typed "],
                  [kind |-> "line", v |-> ""],
                  [kind |-> "eof", v |-> ""]}

ConfigIdle ==
    /\ cfg_pc = "idle"
    /\ cfg_start = Absent
    /\ cfg_file = Absent
    /\ cfg_env = [set |-> FALSE, v |-> ""]
    /\ cfg_config = NoConfig
    /\ cfg_prompts = <<>>
    /\ cfg_saves = <<>>
    /\ cfg_sets = <<>>

ExtractIdle ==
    /\ x_text = ""
    /\ x_form = NoForm
    /\ x_pc = "idle"
    /\ x_suggestions = <<>>
    /\ x_issues = <<>>

Init == RunInit /\ ExtractIdle /\ ConfigIdle

Next ==
    \/ \E cmd \in 1..Len(GitCommands) : \E res \in GitResults(GitCommands[cmd]) :
         GitCommand(res)
    \/ CheckDiff
    \/ \E res \in TextResults(CommitOutputs) : GetCommitMessage(res)
    \/ \E res \in TextResults(BranchOutputs) : GetBranchName(res)
    \/ \E resp \in HttpResponses : ReviewCode(resp)
    \/ CheckError
    \/ TerminalShow
    \/ \E line \in InputLines : TerminalInput(line)
    \/ TerminalEOF
    \/ \E built \in BOOLEAN : PyQtShow(built)
    \/ ClickCancel
    \/ ClickProceed
    \/ \E yes \in BOOLEAN : ConfirmAnswer(yes)
    \/ CloseWindow
    \/ Decide
    \/ HandleException
    \/ HookExit

Spec == Init /\ [][Next]_vars

(***************************************************************************)
(* The extraction alone, applied to composed review texts                  *)
(***************************************************************************)
\* most bullets of one section of a composed text
MaxBullets == 11
\* most lines of a free-form text
MaxLines == 3

BulletNames == <<"A", "B", "C", "D", "E", "F", "G", "H", "I", "J", "K", "L", "M">>

\* bullet bodies that mention a section keyword, as review prose does
KeywordBullets == {"Possible bug in parser", "See the Improvement notes"}

\* the bullet lists of one section: n plain bullets, or up to two bullets
\* of which some mention a keyword
BulletLists ==
    {Take(BulletNames, n) : n \in 0..MaxBullets}
      \cup {<<"C">>}
      \cup {<<k>> : k \in KeywordBullets}
      \cup {<<"A", k>> : k \in KeywordBullets}
      \cup {<<k, "B">> : k \in KeywordBullets}

RECURSIVE BulletLines(_)
BulletLines(list) ==
    IF Len(list) = 0 THEN "" ELSE "- " \o Head(list) \o NL \o BulletLines(Tail(list))

\* "Issues:\n- A\n- B\n\nSuggestions:\n- C\n" for <<"A","B">> and <<"C">>
WellFormedText(ib, sb) ==
    "Issues:" \o NL \o BulletLines(ib) \o NL \o "Suggestions:" \o NL \o BulletLines(sb)

Lexicon == {"Issues:", "## Suggestions", "- Unused import",
            "* Possible bug in parser", "", "Summary: looks fine",
            "This could fix an error", "# Notes", "   fix it   "}

RECURSIVE Repeat(_, _)
Repeat(x, n) == IF n = 0 THEN <<>> ELSE <<x>> \o Repeat(x, n - 1)

RECURSIVE SeqsUpTo(_, _)
SeqsUpTo(S, n) ==
    IF n = 0 THEN {<<>>}
    ELSE LET shorter == SeqsUpTo(S, n - 1)
         IN shorter \cup {Append(q, x) : q \in shorter, x \in S}

FreeFormLines ==
    SeqsUpTo(Lexicon, MaxLines)
      \cup {Repeat(l, n) : l \in Lexicon, n \in 1..MaxBullets}

\* n characters without any keyword
RECURSIVE Filler(_)
Filler(n) == IF n <= 0 THEN ""
             ELSE IF n = 1 THEN "."
             ELSE Filler(n \div 2) \o Filler(n - (n \div 2))

\* what precedes the body: nothing, the marker, the marker ending exactly
\* at the end of the window, the marker starting inside the window and
\* ending after it
Prefixes == {"",
             CriticalMarker \o NL,
             Filler(CriticalWindow - Len(CriticalMarker)) \o CriticalMarker \o NL,
             Filler(CriticalWindow - Len(CriticalMarker) + 1) \o CriticalMarker \o NL}

\* a section with a bullet, a line that may close it, a bullet, a line
\* that may open it again and a last bullet
RegionOpeners   == {"Issues:", "Suggestions:"}
RegionFirst     == {"- Unused import", "* Rename the helper"}
RegionClosers   == {"", "# Notes", "Summary: looks fine", "Any questions?",
                    "Suggestions:", "Issues:", "Improvement ideas",
                    "Known problems", "- See the summary", "Plain remark",
                    "# Known bugs"}
RegionReopeners == {"Plain remark", "More issues", "Further suggestions",
                    "- One more bug"}

RegionLines ==
    {<<o, b, c, "- Late entry", r, "- Final entry">> :
        o \in RegionOpeners, b \in RegionFirst, c \in RegionClosers,
        r \in RegionReopeners}

ExtractForms ==
    {[kind |-> "wellformed", prefix |-> "", issues |-> ib, suggestions |-> sb,
      lines |-> <<>>] : ib \in BulletLists, sb \in BulletLists}
      \cup {[kind |-> "marked", prefix |-> p, issues |-> ib, suggestions |-> <<"A">>,
             lines |-> <<>>] : p \in Prefixes \ {""}, ib \in BulletLists}
      \cup {[kind |-> "free", prefix |-> p, issues |-> <<>>, suggestions |-> <<>>,
             lines |-> ls] : p \in {"", CriticalMarker \o NL}, ls \in FreeFormLines}
      \cup {[kind |-> "regions", prefix |-> "", issues |-> <<>>,
             suggestions |-> <<>>, lines |-> ls] : ls \in RegionLines}

FormText(f) ==
    IF f.kind \in {"free", "regions"} THEN f.prefix \o Join(f.lines)
    ELSE f.prefix \o WellFormedText(f.issues, f.suggestions)

ExtractInit ==
    /\ RunInit
    /\ ConfigIdle
    /\ ui = "terminal"
    /\ x_form \in ExtractForms
    /\ x_text = FormText(x_form)
    /\ x_pc = "suggestions"
    /\ x_suggestions = <<>>
    /\ x_issues = <<>>

\* review_code: `"suggestions": self._extract_suggestions(review_text)`
ExtractSuggestions ==
    /\ x_pc = "suggestions"
    /\ x_suggestions' = _extract_suggestions(x_text)
    /\ x_pc' = "issues"
    /\ UNCHANGED <<x_text, x_form, x_issues>>
    /\ UNCHANGED <<runVars, cfgVars>>

\* review_code: `"issues": self._extract_issues(review_text)`
ExtractIssues ==
    /\ x_pc = "issues"
    /\ x_issues' = _extract_issues(x_text)
    /\ x_pc' = "done"
    /\ UNCHANGED <<x_text, x_form, x_suggestions>>
    /\ UNCHANGED <<runVars, cfgVars>>

ExtractNext == ExtractSuggestions \/ ExtractIssues

SpecExtract == ExtractInit /\ [][ExtractNext]_vars

(***************************************************************************)
(* Properties                                                              *)
(***************************************************************************)
Finished == pc \in {"returned", "exited"}

\* empty or made of whitespace characters only
WhitespaceOnly(s) == \A i \in 1..Len(s) : CharAt(s, i) \in Whitespace

Last(seq) == seq[Len(seq)]

\* C1: whenever get_diff returns an empty or whitespace-only diff, run
\* returns 0 and review_code, the HTTP POST, get_commit_message,
\* get_branch_name, show_review and show_error are never called.
C1_EmptyDiffReturnsZero ==
    (gitpc = "return" /\ WhitespaceOnly(run_diff)) =>
        /\ \A c \in Collaborators \ {"get_diff"} : calls[c] = 0
        /\ posts = <<>>
        /\ pc \in {"check_diff", "returned", "exited"}
        /\ Finished => exit_code = 0

C1_Witness ==
    /\ pc = "exited"
    /\ gitpc = "return"
    /\ run_diff = " \n"
    /\ exit_code = 0

\* C2: with a non-empty diff and a review result without an error, run
\* returns 0 if and only if show_review returned proceed, and 1 when the
\* user cancelled; in every run exit code 0 is returned only when the diff
\* was empty or the decision was proceed, and only exit code 0 lets the
\* hook allow the push.
C2_ExitZeroOnlyOnProceed ==
    Finished =>
        /\ proceed # "unset" => (exit_code = 0 <=> proceed = "True")
        /\ proceed = "False" => exit_code = 1
        /\ exit_code = 0 =>
             \/ gitpc = "return" /\ WhitespaceOnly(run_diff)
             \/ proceed = "True" /\ calls["show_review"] = 1
                  /\ "error" \notin DOMAIN review_data
        /\ pc = "exited" => (push = "allowed" <=> exit_code = 0)

C2_Witness ==
    /\ pc = "exited"
    /\ ~WhitespaceOnly(run_diff)
    /\ "error" \notin DOMAIN review_data
    /\ proceed = "False"
    /\ exit_code = 1
    /\ push = "blocked"

\* C3: when the HTTP POST fails (transport error or HTTP error status),
\* review_code returns a result whose error field is present and non-empty
\* with empty issues and suggestions, and run then calls show_error exactly
\* once, never calls show_review, and returns 1.
C3_HttpFailureReported ==
    (posts # <<>> /\ Last(posts) \in {"transport", "http"}) =>
        /\ "error" \in DOMAIN review_data
        /\ review_data.error # ""
        /\ review_data.issues = <<>>
        /\ review_data.suggestions = <<>>
        /\ calls["show_review"] = 0
        /\ proceed = "unset"
        /\ calls["show_error"] <= 1
        /\ Finished => (calls["show_error"] = 1 /\ Len(errors) = 1 /\ exit_code = 1)

C3_Witness ==
    /\ pc = "exited"
    /\ posts = <<"http">>
    /\ calls["show_error"] = 1
    /\ exit_code = 1
    /\ push = "blocked"

TerminalSurface == ui \in {"terminal", "pyqt_fallback"}

\* the text contains "critical" in any letter case
MentionsCritical(s) ==
    \E i \in 1..(Len(s) - 7) :
        \A k \in 1..8 : LowerChar(CharAt(s, i + k - 1)) = CharAt("critical", k)

\* the review handed to the decision surface has a critical issue
CriticalReview ==
    /\ "issues" \in DOMAIN review_data
    /\ \E i \in 1..Len(review_data.issues) : MentionsCritical(review_data.issues[i])

YesInputs == {"y", "Y", "yes", "yeS", "yEs", "yES", "Yes", "YeS", "YEs", "YES"}
NoInputs  == {"n", "N", "no", "nO", "No", "NO"}

Count(seq, S) == Cardinality({i \in 1..Len(seq) : seq[i] \in S})

\* C4: on the terminal decision surface, when an issue contains "critical"
\* a single affirmative input does not resolve to proceed: a second explicit
\* confirmation is required before show_review returns True; a negative
\* input returns False at once.
C4_TerminalSecondConfirmation ==
    (TerminalSurface /\ calls["show_review"] = 1 /\ CriticalReview) =>
        /\ proceed = "True" => Count(inputs, YesInputs) >= 2
        /\ (inputs # <<>> /\ Last(inputs) \in NoInputs) => proceed = "False"

\* the user did `what` in the PyQt window in this step
C5_Click(what) == clicks' = Append(clicks, what)

C5_Unresolved == proceed' = "unset" /\ pc' = "window" /\ user_decision' = FALSE

C5_WindowSteps ==
    /\ (C5_Click("proceed") /\ CriticalReview) => (C5_Unresolved /\ window' = "confirm")
    /\ (C5_Click("proceed") /\ ~CriticalReview) =>
           (proceed' = "True" /\ user_decision' = TRUE /\ window' = "closed")
    /\ C5_Click("no") => (C5_Unresolved /\ window' = "open")
    /\ C5_Click("yes") =>
           (window = "confirm" /\ proceed' = "True" /\ user_decision' = TRUE
              /\ window' = "closed")
    /\ C5_Click("cancel") =>
           (window = "open" /\ proceed' = "False" /\ user_decision' = FALSE
              /\ window' = "closed")

C5_ProceedOnlyAfterYes ==
    (ui = "pyqt" /\ CriticalReview /\ proceed = "True") =>
        /\ Len(clicks) >= 2
        /\ Last(clicks) = "yes"
        /\ clicks[Len(clicks) - 1] = "proceed"

\* C5: in the PyQt window, when an issue contains "critical", a click on
\* Proceed never sets the decision by itself: it opens the confirmation
\* dialog; the decision becomes proceed only when the dialog is answered
\* Yes; No leaves the decision unresolved and the window open; Cancel
\* resolves to cancel without confirmation; without a critical issue one
\* click on Proceed resolves to proceed.
C5_WindowedConfirmation == [][C5_WindowSteps]_vars /\ []C5_ProceedOnlyAfterYes

C5_Witness ==
    /\ ui = "pyqt"
    /\ CriticalReview
    /\ clicks = <<"proceed", "no", "proceed", "yes">>
    /\ proceed = "True"
    /\ exit_code = 0

\* C6 as stated: show_review returns True on the first input equal to "y",
\* "Y" or "yes", False on the first input equal to "n" or "no", and any
\* other input only causes a re-prompt.
C6_FirstValidInputDecides_AsStated ==
    (TerminalSurface /\ inputs # <<>>) =>
        /\ Last(inputs) \in {"y", "Y", "yes"} => proceed = "True"
        /\ Last(inputs) \in {"n", "no"} => proceed = "False"
        /\ Last(inputs) \notin {"y", "Y", "yes", "n", "no"} => proceed = "unset"

\* the decision after the inputs read so far
C6_Decided ==
    (TerminalSurface /\ inputs # <<>>) =>
        /\ \A i \in 1..(Len(inputs) - 1) : inputs[i] \notin YesInputs \cup NoInputs
        /\ Last(inputs) \in YesInputs => proceed = "True"
        /\ Last(inputs) \in NoInputs => proceed = "False"
        /\ Last(inputs) \notin YesInputs \cup NoInputs => proceed = "unset"

C6_Reprompt ==
    (inputs' # inputs /\ Last(inputs') \notin YesInputs \cup NoInputs) =>
        /\ pc' = "prompt"
        /\ UNCHANGED <<gitVars, xVars, commit_msg, branch_name, review_data,
                       review_args, calls, posts, ui, has_critical, window,
                       clicks, declines, user_decision, proceed, error_msg,
                       errors, exit_code, push>>

\* C6: the input is compared after lower(): show_review returns True on the
\* first input that is "y" or "yes" in any letter case, False on the first
\* input that is "n" or "no" in any letter case; any other input only
\* causes a re-prompt and changes nothing else, so the result is determined
\* by the first valid input alone.
C6_FirstValidInputDecides == [][C6_Reprompt]_vars /\ []C6_Decided

C6_Witness ==
    /\ ui = "terminal"
    /\ inputs = <<"maybe", "", "N">>
    /\ proceed = "False"
    /\ exit_code = 1

\* C7: for every review text, _extract_issues and _extract_suggestions
\* each return at most 10 entries, also when the synthetic critical entry
\* is prepended and when the keyword scan is used.
C7_AtMostTenEntries ==
    /\ Len(x_suggestions) <= 10
    /\ Len(x_issues) <= 10

\* the marker lies within the first 100 characters of the text
MarkerInWindow(text) ==
    \E i \in 1..80 :
        /\ i + 20 <= Len(text)
        /\ SubSeq(text, i, i + 20) = "CRITICAL ISSUES FOUND"

C7_Witness ==
    /\ x_pc = "done"
    /\ MarkerInWindow(x_text)
    /\ Len(x_form.issues) = 11
    /\ Len(x_issues) = 10
    /\ Len(x_suggestions) = 1

MentionsKeyword(s) ==
    \E w \in {"issue", "problem", "bug", "suggestion", "improvement"} :
        \E i \in 1..(Len(s) - Len(w) + 1) :
            \A k \in 1..Len(w) : LowerChar(CharAt(s, i + k - 1)) = CharAt(w, k)

C9_WellFormed ==
    /\ x_pc = "done"
    /\ x_form.kind = "wellformed"
    /\ Len(x_form.issues) \in 1..10
    /\ Len(x_form.suggestions) \in 1..10

\* C9 as stated: for a text made of an "Issues:" header, bulleted lines, a
\* blank line, a "Suggestions:" header and bulleted lines, issues is exactly
\* the issue bullets and suggestions exactly the suggestion bullets.
C9_WellFormedExtraction_AsStated ==
    C9_WellFormed =>
        /\ x_issues = x_form.issues
        /\ x_suggestions = x_form.suggestions

\* C9: for a text made of an "Issues:" header, 1 to 10 bulleted lines, a
\* blank line, a "Suggestions:" header and 1 to 10 bulleted lines, none of
\* whose bullets mentions a section keyword (issue, problem, bug,
\* suggestion, improvement), issues is exactly the issue bullets in text
\* order with the marker stripped and suggestions exactly the suggestion
\* bullets.
C9_WellFormedExtraction ==
    (/\ C9_WellFormed
     /\ \A i \in 1..Len(x_form.issues) : ~MentionsKeyword(x_form.issues[i])
     /\ \A i \in 1..Len(x_form.suggestions) : ~MentionsKeyword(x_form.suggestions[i])) =>
        /\ x_issues = x_form.issues
        /\ x_suggestions = x_form.suggestions

C9_Witness ==
    /\ x_pc = "done"
    /\ x_text = "Issues:\n- A\n- B\n\nSuggestions:\n- C\n"
    /\ x_issues = <<"A", "B">>
    /\ x_suggestions = <<"C">>

\* the alternative get_diff turns to when a command exits non-zero
C10_NextAlternative(cmd) ==
    CASE cmd = "diff --staged" -> "rev-parse HEAD"
      [] cmd = "rev-parse HEAD" -> "diff"
      [] cmd = "diff" -> "return"
      [] cmd = "rev-parse @{u}" -> "diff origin/main...HEAD"
      [] cmd = "diff @{u}..HEAD" -> "diff origin/main...HEAD"
      [] cmd = "diff origin/main...HEAD" -> "diff HEAD~1..HEAD"
      [] cmd = "diff HEAD~1..HEAD" -> "return"

C10_FailureStep ==
    (Len(gitLog') = Len(gitLog) + 1 /\ Last(gitLog').kind = "fail") =>
        /\ pc' # "except"
        /\ gitpc' = C10_NextAlternative(Last(gitLog').cmd)

C10_AllFailed ==
    /\ gitpc = "return"
    /\ \A i \in 1..Len(gitLog) :
         gitLog[i].cmd \in DiffCommands => gitLog[i].kind = "fail"

C10_AllFailedReturnsEmpty ==
    C10_AllFailed =>
        /\ run_diff = ""
        /\ calls["show_error"] = 0
        /\ Finished => exit_code = 0

\* C10: whenever a git command of the cascade exits non-zero, get_diff does
\* not raise and turns to the next alternative in the fixed order staged
\* diff, (no commit yet) working-tree diff, upstream-relative diff,
\* origin/main-relative diff, last-commit diff; when every diff command
\* fails, get_diff returns empty text and run returns 0.
C10_FallbackCascade == [][C10_FailureStep]_vars /\ []C10_AllFailedReturnsEmpty

C10_Witness ==
    /\ pc = "exited"
    /\ exit_code = 0
    /\ C10_AllFailed
    /\ Len(gitLog) = 6
    /\ gitLog[5].cmd = "diff origin/main...HEAD"
    /\ gitLog[6].cmd = "diff HEAD~1..HEAD"

\* the repository has at least one commit: `git rev-parse HEAD` exited 0
C11_HasCommits ==
    \E i \in 1..Len(gitLog) :
        gitLog[i].cmd = "rev-parse HEAD" /\ gitLog[i].kind = "ok"

C11_Tried(cmd) == \E i \in 1..Len(gitLog) : gitLog[i].cmd = cmd

\* C11: get_diff keeps trying the alternatives until one yields non-empty
\* output: in a repository with commits it returns blank text only after
\* the origin/main-relative diff and the last-commit diff were tried too,
\* so an upstream-relative diff that exits 0 with no text does not end the
\* cascade.
C11_TriesUntilNonEmpty ==
    (gitpc = "return" /\ C11_HasCommits /\ IsBlank(run_diff)) =>
        /\ C11_Tried("diff origin/main...HEAD")
        /\ C11_Tried("diff HEAD~1..HEAD")

\* the stages of run in call order, and the stage run is in at position p
C12_Stages == <<"get_diff", "get_commit_message", "get_branch_name",
                "review_code", "show_review">>

C12_StageAt(p) ==
    CASE p = "get_diff" -> 1
      [] p = "get_commit_message" -> 2
      [] p = "get_branch_name" -> 3
      [] p = "review_code" -> 4
      [] p \in {"show_review", "prompt", "window"} -> 5
      [] OTHER -> 0

\* str(e) of the exceptions a stage can raise
C12_ExceptionTexts(stage) ==
    CASE stage \in {1, 2, 3} -> {ExceptionText}
      [] stage = 4 -> {TypeErrorText, KeyErrorText}
      [] stage = 5 -> {EOFErrorText}
      [] OTHER -> {}

\* a stage raises: the stage was entered, the later ones were not, and the
\* message kept for show_error embeds the exception text
C12_RaiseStep ==
    (pc # "except" /\ pc' = "except") =>
        /\ C12_StageAt(pc) \in 1..5
        /\ calls'[C12_Stages[C12_StageAt(pc)]] = 1
        /\ \A j \in (C12_StageAt(pc) + 1)..5 : calls'[C12_Stages[j]] = 0
        /\ \E e \in C12_ExceptionTexts(C12_StageAt(pc)) :
             /\ error_msg' = "Unexpected error: " \o e
             /\ Contains(e, error_msg')
        /\ calls'["show_error"] = 0

\* once the exception is caught no stage runs any more: show_error is
\* called with the message and run returns 1
C12_HandlerStep ==
    /\ pc = "except" =>
         /\ calls' = [calls EXCEPT !["show_error"] = 1]
         /\ errors' = <<error_msg>>
         /\ exit_code' = 1
         /\ pc' = "returned"
    /\ (pc \in {"returned", "exited"} /\ errors = <<error_msg>>) =>
         /\ calls' = calls
         /\ errors' = errors
         /\ exit_code' = 1
         /\ <<review_data, proceed>>' = <<review_data, proceed>>

\* C12: when get_diff, get_commit_message, get_branch_name, review_code or
\* show_review raises, run catches the exception, calls show_error exactly
\* once with a message embedding the exception text and returns 1; the
\* stages after the failing one are not executed.
C12_ExceptionCaught == [][C12_RaiseStep /\ C12_HandlerStep]_vars

C12_Witness ==
    /\ pc = "exited"
    /\ errors = <<"Unexpected error: " \o TypeErrorText>>
    /\ calls = [c \in Collaborators |->
                  IF c = "show_review" THEN 0 ELSE 1]
    /\ exit_code = 1
    /\ push = "blocked"

C13_AtMostOnce ==
    \A i \in 1..5 : calls[C12_Stages[i]] <= 1

\* the ReviewResult, once returned by review_code, and the Decision, once
\* returned by show_review, keep their value
C13_NoMutation ==
    /\ review_data # NoReview => review_data' = review_data
    /\ proceed # "unset" => proceed' = proceed

\* C13: in every execution of run, get_diff, get_commit_message,
\* get_branch_name, review_code and show_review are each called at most
\* once, and the ReviewResult returned by review_code is not modified
\* between its creation and the end of the run (nor is the Decision).
C13_OneResultOneDecision == []C13_AtMostOnce /\ [][C13_NoMutation]_vars

\* the windowed surface, which checks the keys of the dict, has decided
C13_Witness ==
    /\ pc = "exited"
    /\ ui = "pyqt"
    /\ \A i \in 1..5 : calls[C12_Stages[i]] = 1
    /\ review_data.raw_response \in Payloads
    /\ review_data.review_text = FallbackText
    /\ proceed = "True"

(***************************************************************************)
(* review_code alone: called directly on a diff, a commit message and a    *)
(* branch name                                                             *)
(***************************************************************************)
ReviewDiffs    == {"", " \n", "\n\t ", "+a\n", "-b\n+c\n"}
ReviewMessages == {"Fix parser", "Initial commit", ""}
ReviewBranches == {"feature/x", "main"}

ReviewInit ==
    /\ pc = "review_code"
    /\ gitpc = "return"
    /\ diff = ""
    /\ gitLog = <<>>
    /\ infoLog = <<>>
    /\ run_diff \in ReviewDiffs
    /\ commit_msg \in ReviewMessages
    /\ branch_name \in ReviewBranches
    /\ review_data = NoReview
    /\ review_args = NoArgs
    /\ calls = [c \in Collaborators |-> 0]
    /\ posts = <<>>
    /\ ui = "terminal"
    /\ has_critical = FALSE
    /\ inputs = <<>>
    /\ window = "none"
    /\ clicks = <<>>
    /\ declines = 0
    /\ user_decision = FALSE
    /\ proceed = "unset"
    /\ error_msg = ""
    /\ errors = <<>>
    /\ exit_code = -1
    /\ push = "pending"
    /\ ExtractIdle
    /\ ConfigIdle

ReviewNext == \E resp \in HttpResponses : ReviewCode(resp)

SpecReview == ReviewInit /\ [][ReviewNext]_vars

\* review_code has been called and has returned or raised
C14_Called == calls["review_code"] = 1

\* C14: review_code issues no HTTP POST when the diff is empty or
\* whitespace-only (it returns the fixed "No changes to review." text with
\* empty issues and suggestions and no error field), and issues exactly one
\* HTTP POST per call otherwise, whether the request succeeds or fails.
C14_PostOnlyForChanges ==
    C14_Called =>
        IF WhitespaceOnly(review_args.diff)
        THEN /\ posts = <<>>
             /\ calls["post"] = 0
             /\ review_data # NoReview
             /\ review_data.review_text = "No changes to review."
             /\ review_data.issues = <<>>
             /\ review_data.suggestions = <<>>
             /\ "error" \notin DOMAIN review_data
        ELSE /\ Len(posts) = 1
             /\ calls["post"] = 1

\* a whitespace-only diff answered without a POST, and a failed POST that
\* was not repeated
C14_Witness ==
    /\ C14_Called
    /\ review_args.diff = "\n\t "
    /\ review_data = NoChangesResult
    /\ posts = <<>>

C14_WitnessFailedPost ==
    /\ C14_Called
    /\ review_args.diff = "-b\n+c\n"
    /\ posts = <<"http">>
    /\ "error" \in DOMAIN review_data

\* the payloads of the documented shape: a content list whose first
\* element carries a text
C15_WellShaped == {TextPayload(t) : t \in ReviewTexts}

\* C15: for every HTTP-successful response whose payload does not have the
\* expected shape (content key absent, content empty, first element without
\* a text field, content null or an object), review_code does not fail: it
\* returns a result without an error field whose review_text is the fixed
\* "Could not extract review text from API response." message, and run goes
\* on to present it.
C15_MalformedDegrades ==
    (posts = <<"ok">> /\ pc # "review_code") =>
        /\ pc # "except"
        /\ review_data # NoReview
        /\ ~HasError(review_data)
        /\ review_data.raw_response \notin C15_WellShaped =>
             /\ review_data.review_text = FallbackText
             /\ calls["show_error"] = 0
             /\ Finished => calls["show_review"] = 1

\* the command of get_commit_message or get_branch_name exits non-zero:
\* the placeholder is returned and run goes on to the next stage
C16_FailureStep ==
    (Len(infoLog') = Len(infoLog) + 1 /\ Last(infoLog').kind = "fail") =>
        /\ ~WhitespaceOnly(run_diff)
        /\ IF Last(infoLog').cmd = "log -1"
           THEN commit_msg' = "Initial commit" /\ pc' = "get_branch_name"
           ELSE branch_name' = "main" /\ pc' = "review_code"

\* run calls review_code with what the two functions returned
C16_ReviewStep ==
    (pc = "review_code" /\ pc' # pc) =>
        /\ calls'["review_code"] = 1
        /\ review_args' = [diff |-> run_diff, commit_msg |-> commit_msg,
                           branch |-> branch_name]

\* C16: when the underlying git command exits non-zero, get_commit_message
\* returns "Initial commit" and get_branch_name returns "main" instead of
\* raising, so with a non-empty diff run still calls review_code, with the
\* placeholders as arguments.
C16_Placeholders == [][C16_FailureStep /\ C16_ReviewStep]_vars

C16_Witness ==
    /\ pc = "exited"
    /\ \A i \in 1..Len(infoLog) : infoLog[i].kind = "fail"
    /\ calls["review_code"] = 1
    /\ review_args = [diff |-> "+a\n", commit_msg |-> "Initial commit",
                      branch |-> "main"]
    /\ review_data # NoReview
    /\ errors = <<>>
    /\ exit_code = 0

(***************************************************************************)
(* ConfigManager alone: construction, then set(key, value) calls           *)
(***************************************************************************)
\* set(key, value) calls made on one ConfigManager
MaxSets == 2

StartFiles == {Absent, Corrupt, JsonFile(JsonDump(DefaultConfig("sk-saved")))}

SetInputs ==
    {[key |-> "api_key", value |-> Value("str", "sk-new")],
     [key |-> "max_diff_size", value |-> Value("int", "500")],
     [key |-> "theme", value |-> Value("str", "dark")],
     [key |-> "reviewers", value |-> Value("tuple", "ann,bob")],
     [key |-> "ignored", value |-> Value("set", "tmp")]}

ConfigInit ==
    /\ RunInit
    /\ ui = "terminal"
    /\ ExtractIdle
    /\ cfg_pc = "start"
    /\ cfg_start \in StartFiles
    /\ cfg_file = cfg_start
    /\ cfg_env \in EnvValues
    /\ cfg_config = NoConfig
    /\ cfg_prompts = <<>>
    /\ cfg_saves = <<>>
    /\ cfg_sets = <<>>

\* ConfigManager.__init__: _load_config, and _create_default_config when
\* the file is absent or cannot be read. An EOFError of input() raised
\* inside the try of _load_config is caught there and
\* _create_default_config is called once more, where it escapes.
Construct(p, out) ==
    /\ cfg_pc = "start"
    /\ p \in PromptResults
    /\ out \in SaveOutcomes
    /\ LET asks   == NeedsPrompt(cfg_env)
           config == DefaultConfig(IF asks THEN Strip(p.v) ELSE cfg_env.v)
       IN IF cfg_file.kind = "json"
          THEN /\ cfg_config' = cfg_file.content
               /\ cfg_pc' = "ready"
               /\ UNCHANGED <<cfg_file, cfg_prompts, cfg_saves>>
          ELSE IF asks /\ p.kind = "eof"
          THEN /\ cfg_prompts' = IF cfg_file = Absent
                                 THEN <<p, p>> ELSE <<p>>
               /\ cfg_pc' = "failed"
               /\ UNCHANGED <<cfg_file, cfg_config, cfg_saves>>
          ELSE /\ cfg_prompts' = IF asks THEN <<p>> ELSE <<>>
               /\ cfg_config' = config
               /\ cfg_file' = _save_config(cfg_file, config, out)
               /\ cfg_saves' = <<SaveResult(config, out)>>
               /\ cfg_pc' = "ready"
    /\ UNCHANGED <<cfg_start, cfg_env, cfg_sets>>
    /\ UNCHANGED <<runVars, xVars>>

\* self.config[key] = value
SetItem(config, key, value) ==
    [k \in DOMAIN config \cup {key} |-> IF k = key THEN value ELSE config[k]]

\* ConfigManager.set(key, value)
Set(inp, out) ==
    /\ cfg_pc = "ready"
    /\ Len(cfg_sets) < MaxSets
    /\ inp \in SetInputs
    /\ out \in SaveOutcomes
    /\ cfg_config' = SetItem(cfg_config, inp.key, inp.value)
    /\ cfg_file' = _save_config(cfg_file, cfg_config', out)
    /\ cfg_saves' = Append(cfg_saves, SaveResult(cfg_config', out))
    /\ cfg_sets' = Append(cfg_sets, inp)
    /\ UNCHANGED <<cfg_pc, cfg_start, cfg_env, cfg_prompts>>
    /\ UNCHANGED <<runVars, xVars>>

ConfigNext ==
    \/ \E p \in PromptResults, out \in SaveOutcomes : Construct(p, out)
    \/ \E inp \in SetInputs, out \in SaveOutcomes : Set(inp, out)

SpecConfig == ConfigInit /\ [][ConfigNext]_vars

\* __init__ is over and nothing was set yet
C17_Started == cfg_pc \in {"ready", "failed"} /\ cfg_sets = <<>>

\* C17: when no configuration file exists and the variable is unset, the
\* user is prompted exactly once and the entered key is both used and
\* written to the file; when no file exists and the variable is set, its
\* value is used and written without prompting; after any set(key, value)
\* the file content equals the in-memory configuration.
C17_PromptAndPersist ==
    /\ (C17_Started /\ cfg_start = Absent /\ ~cfg_env.set) =>
          /\ Len(cfg_prompts) = 1
          /\ cfg_config = DefaultConfig(Strip(cfg_prompts[1].v))
          /\ cfg_file = JsonFile(cfg_config)
    /\ (C17_Started /\ cfg_start = Absent /\ cfg_env.set) =>
          /\ cfg_prompts = <<>>
          /\ cfg_config = DefaultConfig(cfg_env.v)
          /\ cfg_file = JsonFile(cfg_config)
    /\ cfg_sets # <<>> => cfg_file = JsonFile(cfg_config)

\* the keywords that open a section, and those of the other sections
SectionKeywords(k) ==
    IF k = "issues" THEN {"issue", "problem", "bug"}
    ELSE {"suggestion", "improvement"}

OtherSectionKeywords(k) ==
    IF k = "issues" THEN {"suggestion", "improvement", "question", "summary"}
    ELSE {"issue", "problem", "bug", "question", "summary"}

Mentions(line, W) == \E w \in W : Contains(w, Lower(line))

Bulleted(line) == Len(line) >= 2 /\ SubSeq(line, 1, 2) \in {"- ", "* "}

PrefixOf(a, b) == Len(a) <= Len(b) /\ SubSeq(b, 1, Len(a)) = a

\* the least index of lines after `from` whose line satisfies P, or
\* Len(lines) + 1
FirstAfter(lines, from, P(_)) ==
    LET S == {i \in (from + 1)..Len(lines) : P(lines[i])}
    IN IF S = {} THEN Len(lines) + 1
       ELSE CHOOSE i \in S : \A j \in S : i <= j

\* the first region of section k: the lines after the first line that
\* mentions a keyword of k, up to the first line that is not bulleted and
\* is blank, a heading or mentions a keyword of another section
C18_Region(k, lines) ==
    LET Opens(l)  == Mentions(l, SectionKeywords(k))
        Closes(l) == /\ ~Bulleted(l)
                     /\ \/ l = ""
                        \/ StartsWith(l, "#")
                        \/ Mentions(l, OtherSectionKeywords(k))
        o == FirstAfter(lines, 0, Opens)
        c == FirstAfter(lines, o, Closes)
    IN IF o > Len(lines) THEN <<>> ELSE SubSeq(lines, o + 1, c - 1)

\* the bulleted lines of a region, marker stripped
C18_Bullets(region) ==
    LET b == SelectSeq(region, Bulleted)
    IN [i \in 1..Len(b) |-> Strip(DropFirst(b[i], 2))]

\* the bulleted lines of a region of section k that mention no keyword of k
C18_PlainBullets(k, region) ==
    LET Plain(l) == Bulleted(l) /\ ~Mentions(l, SectionKeywords(k))
        b == SelectSeq(region, Plain)
    IN [i \in 1..Len(b) |-> Strip(DropFirst(b[i], 2))]

\* the extracted list of section k without the synthetic entry, and the
\* room the cap leaves for it
C18_Result(k) ==
    IF k = "suggestions" THEN x_suggestions
    ELSE IF MarkerInWindow(x_text) THEN Tail(x_issues) ELSE x_issues

C18_Room(k) ==
    IF k = "issues" /\ MarkerInWindow(x_text) THEN ListCap - 1 ELSE ListCap

\* C18 as stated: every bulleted line of the first region is in the list
C18_EveryBulletCaptured_AsStated ==
    x_pc = "done" =>
        \A k \in {"issues", "suggestions"} :
            PrefixOf(Take(C18_Bullets(C18_Region(k, Split(x_text))), C18_Room(k)),
                     C18_Result(k))

\* C18: once a line containing a section keyword has opened the issues
\* (resp. suggestions) region, every subsequent line that starts with "- "
\* or "* " and contains none of that section's own keywords is appended to
\* the list with the marker stripped, in text order, up to the first line
\* that closes the region; a bulleted line that contains one of the
\* section's own keywords is read as a header and is not appended.
C18_EveryBulletCaptured ==
    x_pc = "done" =>
        \A k \in {"issues", "suggestions"} :
            PrefixOf(Take(C18_PlainBullets(k, C18_Region(k, Split(x_text))),
                          C18_Room(k)),
                     C18_Result(k))

C18_Witness ==
    /\ x_pc = "done"
    /\ x_text = "Issues:\n- A\n- Possible bug in parser\n\nSuggestions:\n- C\n"
    /\ x_issues = <<"A">>
    /\ x_suggestions = <<"C">>

\* the keywords of other sections that the loop of section k tests for
ClosingKeywords(k) ==
    IF k = "issues" THEN {"suggestion", "question", "summary"}
    ELSE {"issue", "question", "summary"}

\* a text made of the header of a section, a bullet, a line that may close
\* the section, the bullet "Late entry", a line that may open the section
\* again and the bullet "Final entry"
C19_Regions == x_pc = "done" /\ x_form.kind = "regions"

C19_Section == IF x_form.lines[1] = "Issues:" THEN "issues" ELSE "suggestions"

C19_Captured(entry) ==
    \E i \in 1..Len(C18_Result(C19_Section)) :
        C18_Result(C19_Section)[i] = entry

C19_Reopens == Mentions(x_form.lines[5], SectionKeywords(C19_Section))

\* C19 as stated: a blank line, a heading or a line with a keyword of a
\* different section closes the region
C19_RegionClosing_AsStated ==
    C19_Regions =>
        LET c == x_form.lines[3]
        IN (\/ c = ""
            \/ StartsWith(c, "#")
            \/ Mentions(c, OtherSectionKeywords(C19_Section))) =>
               /\ ~C19_Captured("Late entry")
               /\ C19_Captured("Final entry") <=> C19_Reopens

\* the lines that close the region of section k in the code
C19_Closes(k, c) ==
    /\ ~Bulleted(c)
    /\ ~Mentions(c, SectionKeywords(k))
    /\ \/ c = ""
       \/ StartsWith(c, "#")
       \/ Mentions(c, ClosingKeywords(k))

\* C19: while a region is open, a line that does not start with a bullet
\* marker, contains none of the section's own keywords and is blank,
\* starts with "#" or contains "question", "summary" or the other list's
\* keyword "suggestion" (issues) resp. "issue" (suggestions) closes it, and
\* bulleted lines after it are not captured until a later line containing
\* one of the section's own keywords re-opens the region; no other line
\* closes the region.
C19_RegionClosing ==
    C19_Regions =>
        IF C19_Closes(C19_Section, x_form.lines[3])
        THEN /\ ~C19_Captured("Late entry")
             /\ C19_Captured("Final entry") <=> C19_Reopens
        ELSE /\ C19_Captured("Late entry")
             /\ C19_Captured("Final entry") <=>
                  ~C19_Closes(C19_Section, x_form.lines[5])

\* closed by a heading and opened again
C19_Witness ==
    /\ x_pc = "done"
    /\ x_text = "Suggestions:\n* Rename the helper\n# Notes\n- Late entry\nFurther suggestions\n- Final entry"
    /\ x_suggestions = <<"Rename the helper", "Final entry">>

\* the domain keywords of the whole-text scan
ScanKeywords(k) ==
    IF k = "issues" THEN {"issue", "bug", "error", "fix"}
    ELSE {"suggest", "could", "would be better"}

\* the lines the scan of section k selects, stripped, in text order
C20_Selected(k, lines) ==
    LET Hit(l) == Mentions(l, ScanKeywords(k)) /\ Len(l) > 10
        q == SelectSeq(lines, Hit)
    IN [i \in 1..Len(q) |-> Strip(q[i])]

\* the bullets captured by the section pass of section k
C20_Captured(k, lines) ==
    IF k = "issues" THEN IssuesPass([on |-> FALSE, out |-> <<>>], lines).out
    ELSE SuggestionsPass([on |-> FALSE, out |-> <<>>], lines).out

C20_WitnessCaptured ==
    /\ x_pc = "done"
    /\ x_text = "Issues:\n- Unused import\nThis could fix an error"
    /\ x_issues = <<"Unused import">>

OtherSection(k) == IF k = "issues" THEN "suggestions" ELSE "issues"

InList(entry, list) == \E i \in 1..Len(list) : list[i] = entry

\* the entry is in the issues list and in the suggestions list
C21_InBoth(entry) == InList(entry, x_issues) /\ InList(entry, x_suggestions)

\* C21 as stated: no bulleted line of the text is captured into both lists
C21_OneRegionOpen_AsStated ==
    C19_Regions =>
        \A i \in 1..Len(x_form.lines) :
            Bulleted(x_form.lines[i]) =>
                ~C21_InBoth(Strip(DropFirst(x_form.lines[i], 2)))

\* the line opens the region of the other section and leaves the region of
\* section k open
C21_OpensBoth(k, l) ==
    /\ Mentions(l, SectionKeywords(OtherSection(k)))
    /\ ~C19_Closes(k, l)

\* C21: the extraction runs two independent passes, each with its own
\* open/closed flag, and both regions can be open at the same line: after
\* the header and first bullet of one section, the next bullet is captured
\* into both lists exactly when the line between them contains a keyword
\* of the other section and is not a closing line of the first
\* ("Improvement ideas" under "Issues:", "Known problems" under
\* "Suggestions:"); a bullet is captured into both lists only if some line
\* of the text opens one region while leaving the other open.
C21_OneRegionOpen ==
    C19_Regions =>
        /\ C21_InBoth("Late entry") <=>
             C21_OpensBoth(C19_Section, x_form.lines[3])
        /\ (\E i \in 1..Len(x_form.lines) :
               /\ Bulleted(x_form.lines[i])
               /\ C21_InBoth(Strip(DropFirst(x_form.lines[i], 2)))) =>
             \E i \in 1..Len(x_form.lines), k \in {"issues", "suggestions"} :
                 C21_OpensBoth(k, x_form.lines[i])

C21_Witness ==
    /\ x_pc = "done"
    /\ x_text = "Issues:\n- Unused import\nImprovement ideas\n- Late entry\nPlain remark\n- Final entry"
    /\ x_issues = <<"Unused import", "Late entry", "Final entry">>
    /\ x_suggestions = <<"Late entry", "Final entry">>

(***************************************************************************)
(* run at the call of show_review on the terminal surface (pr_reviewer.py  *)
(* line 43), the review of a staged diff in hand, with the steps of the    *)
(* program taken when they can be and a user who eventually answers        *)
(***************************************************************************)
ShowPayloads ==
    {TextPayload(t) : t \in ReviewTexts}
      \cup {[content |-> [kind |-> "list", items |-> <<>>]]}

\* run has obtained the staged diff and its review, and is at position `at`
Reviewed(at, payload, surface) ==
    /\ pc = at
    /\ gitpc = "return"
    /\ diff = "+a\n"
    /\ gitLog = <<[cmd |-> "diff --staged", kind |-> "ok"]>>
    /\ infoLog = <<[cmd |-> "log -1", kind |-> "fail"],
                   [cmd |-> "rev-parse --abbrev-ref HEAD", kind |-> "fail"]>>
    /\ run_diff = "+a\n"
    /\ commit_msg = "Initial commit"
    /\ branch_name = "main"
    /\ review_data = SuccessResult("+a\n", payload)
    /\ review_args = [diff |-> "+a\n", commit_msg |-> "Initial commit",
                      branch |-> "main"]
    /\ calls = [c \in Collaborators |->
                  IF c \in {"show_review", "show_error"} THEN 0 ELSE 1]
    /\ posts = <<"ok">>
    /\ ui = surface
    /\ has_critical = FALSE
    /\ inputs = <<>>
    /\ window = "none"
    /\ clicks = <<>>
    /\ declines = 0
    /\ user_decision = FALSE
    /\ proceed = "unset"
    /\ error_msg = ""
    /\ errors = <<>>
    /\ exit_code = -1
    /\ push = "pending"
    /\ ExtractIdle
    /\ ConfigIdle

\* run is about to show the review
AtShowReview(payload, surface) == Reviewed("show_review", payload, surface)

LiveInit ==
    \E payload \in ShowPayloads : \E surface \in {"terminal", "pyqt_fallback"} :
        AtShowReview(payload, surface)

\* the steps run takes by itself
ProgramStep ==
    \/ TerminalShow
    \/ Decide
    \/ HandleException
    \/ HookExit

\* the user enters a line that the loop accepts
ValidInput ==
    \E line \in InputLines : Answer(line) # "again" /\ TerminalInput(line)

LiveNext ==
    \/ ProgramStep
    \/ \E line \in InputLines : TerminalInput(line)
    \/ TerminalEOF

SpecLive ==
    /\ LiveInit
    /\ [][LiveNext]_vars
    /\ WF_vars(ProgramStep)
    /\ WF_vars(ValidInput)

\* show_review has returned
C22_Returned == proceed # "unset"

\* show_review has not returned while every input read so far is invalid,
\* and has returned once the last input read is valid
C22_Blocks ==
    (TerminalSurface /\ calls["show_review"] = 1) =>
        /\ (\A i \in 1..Len(inputs) : inputs[i] \notin YesInputs \cup NoInputs)
              => ~C22_Returned
        /\ (inputs # <<>> /\ Last(inputs) \in YesInputs \cup NoInputs)
              => C22_Returned

\* a re-prompt leaves show_review where it is
C22_InvalidStep ==
    (inputs' # inputs /\ Last(inputs') \notin YesInputs \cup NoInputs) =>
        (pc' = "prompt" /\ ~C22_Returned')

\* C22: the terminal surface blocks until a decision is made: show_review
\* never returns while only invalid inputs have been entered, however
\* many, and returns as soon as, and only when, a valid input (y, yes, n,
\* no) is entered; if the user eventually enters a valid input,
\* show_review terminates and run returns an exit code.
C22_BlocksUntilDecision ==
    /\ []C22_Blocks
    /\ [][C22_InvalidStep]_vars
    /\ (pc = "prompt") ~> (exit_code \in {0, 1})

C22_Witness ==
    /\ pc = "exited"
    /\ ui = "terminal"
    /\ inputs = <<"maybe", "", "yes">>
    /\ proceed = "True"
    /\ exit_code = 0

\* the step is a call of collaborator c
C23_Calls(c) == calls'[c] = calls[c] + 1

\* the commit message and the branch are asked for only once get_diff has
\* returned a diff that is not blank
C23_InfoStep ==
    (C23_Calls("get_commit_message") \/ C23_Calls("get_branch_name")) =>
        /\ calls["get_diff"] = 1
        /\ gitpc = "return"
        /\ Strip(run_diff) # ""

\* what the three collaborators returned stays as returned
C23_Kept ==
    /\ run_diff' # run_diff => pc = "get_diff"
    /\ commit_msg' # commit_msg => C23_Calls("get_commit_message")
    /\ branch_name' # branch_name => C23_Calls("get_branch_name")

\* review_code is called after both, with what the three returned
C23_ReviewStep ==
    C23_Calls("review_code") =>
        /\ calls["get_commit_message"] = 1
        /\ calls["get_branch_name"] = 1
        /\ Len(infoLog) = 2
        /\ \A i \in 1..2 : infoLog[i].kind # "raise"
        /\ review_args' = [diff |-> run_diff, commit_msg |-> commit_msg,
                           branch |-> branch_name]

\* show_review is called with a result of review_code that has no error
C23_ShowStep ==
    C23_Calls("show_review") =>
        /\ calls["review_code"] = 1
        /\ review_data # NoReview
        /\ "error" \notin DOMAIN review_data
        /\ review_data' = review_data \/ ui = "pyqt"

\* C23: ordering inside run: get_commit_message and get_branch_name are
\* called only after get_diff has returned a non-empty diff, review_code is
\* called only after both have returned and receives exactly the diff,
\* commit message and branch they returned, and show_review is called only
\* after review_code has returned a result without an error field.
C23_Ordering ==
    [][C23_InfoStep /\ C23_Kept /\ C23_ReviewStep /\ C23_ShowStep]_vars

C23_Witness ==
    /\ calls["show_review"] = 1
    /\ Len(gitLog) > 1
    /\ \A i \in 1..2 : infoLog[i].kind = "ok"
    /\ review_args = [diff |-> run_diff, commit_msg |-> commit_msg,
                      branch |-> branch_name]
    /\ commit_msg # "Initial commit"
    /\ "error" \notin DOMAIN review_data

(***************************************************************************)
(* One hook run in which the display of an error can itself fail           *)
(* (print on a closed standard output, QMessageBox without a display)      *)
(***************************************************************************)
\* str() of the exception raised by the display
DisplayErrorText == "[Errno 32] Broken pipe"

\* pr_reviewer.py line 39: show_error raises inside the try block
ShowErrorRaises ==
    /\ pc = "check_error"
    /\ HasError(review_data)
    /\ calls' = Called(calls, "show_error")
    /\ error_msg' = UnexpectedError(DisplayErrorText)
    /\ pc' = "except"
    /\ UNCHANGED <<commit_msg, branch_name, review_data, review_args, ui,
                   errors, exit_code, push>>
    /\ UNCHANGED gitVars
    /\ UNCHANGED uiVars
    /\ UNCHANGED <<posts, xVars, cfgVars>>

\* pr_reviewer.py line 55: show_error raises inside the except clause, no
\* handler is left in run and the exception goes to the caller
HandlerShowErrorRaises ==
    /\ pc = "except"
    /\ calls' = Called(calls, "show_error")
    /\ error_msg' = DisplayErrorText
    /\ pc' = "escaped"
    /\ UNCHANGED <<commit_msg, branch_name, review_data, review_args, ui,
                   errors, exit_code, push>>
    /\ UNCHANGED gitVars
    /\ UNCHANGED uiVars
    /\ UNCHANGED <<posts, xVars, cfgVars>>

\* main: `except Exception as e: print(f"Error: {e}"); return 1`, and the
\* hook exits with it
MainExcept ==
    /\ pc = "escaped"
    /\ push' = "blocked"
    /\ pc' = "exited"
    /\ UNCHANGED <<commit_msg, branch_name, review_data, review_args, calls,
                   ui, error_msg, errors, exit_code>>
    /\ UNCHANGED gitVars
    /\ UNCHANGED uiVars
    /\ UNCHANGED <<posts, xVars, cfgVars>>

DisplayFailsNext ==
    \/ Next
    \/ ShowErrorRaises
    \/ HandlerShowErrorRaises
    \/ MainExcept

SpecDisplayFails == Init /\ [][DisplayFailsNext]_vars

\* C24: no failure crashes the run: in every execution run ends by
\* returning 0 or 1 and never lets an exception escape to its caller,
\* including when show_error itself raises while an error is being
\* reported.
C24_NeverEscapes ==
    /\ pc # "escaped"
    /\ pc = "exited" => exit_code \in {0, 1}

\* what does hold: the push is blocked whenever the exception escapes
C24_EscapeBlocksPush ==
    (pc = "exited" /\ exit_code = -1) =>
        (push = "blocked" /\ error_msg = DisplayErrorText /\ calls["show_error"] >= 1)

C24_Escaped ==
    /\ pc = "exited"
    /\ exit_code = -1
    /\ posts = <<"transport">>
    /\ calls["show_error"] = 2

\* the step runs a git command of get_diff
C25_Runs == gitLog' # gitLog

\* a command of the cascade runs only while nothing has been kept, and what
\* a step keeps is returned by that step
C25_Step ==
    /\ C25_Runs => (pc = "get_diff" /\ gitpc # "return" /\ diff = "")
    /\ diff' # diff => (gitpc' = "return" /\ run_diff' = diff')

\* the text held and the text returned are the output of one diff command
C25_OneOutput == diff \in DiffOutputs /\ run_diff \in DiffOutputs

\* the text returned, when there is one, is what the last command gave
C25_LastCommand ==
    (gitpc = "return" /\ run_diff # "") =>
        /\ gitLog[Len(gitLog)].kind = "ok"
        /\ gitLog[Len(gitLog)].cmd \in DiffCommands

\* C25: get_diff returns the output of at most one diff command and never
\* a concatenation of two: once a step has produced non-empty output no
\* later git command of the cascade is run (a non-empty staged diff is
\* returned alone, without the HEAD check or any branch-relative diff being
\* executed).
C25_AtMostOneOutput ==
    /\ [][C25_Step]_vars
    /\ []C25_OneOutput
    /\ []C25_LastCommand

C25_Witness ==
    /\ gitpc = "return"
    /\ run_diff = "+a\n"
    /\ gitLog = <<[cmd |-> "diff --staged", kind |-> "ok"]>>

C25_WitnessCascade ==
    /\ gitpc = "return"
    /\ run_diff = "+a\n"
    /\ Len(gitLog) = 5
    /\ gitLog[5].cmd = "diff origin/main...HEAD"

\* HEAD could not be resolved: `git rev-parse HEAD` exited non-zero
C26_NoCommit ==
    \E i \in 1..Len(gitLog) :
        gitLog[i].cmd = "rev-parse HEAD" /\ gitLog[i].kind = "fail"

\* the commands run on the no-commit path
C26_Path == <<"diff --staged", "rev-parse HEAD", "diff">>

\* on the no-commit path nothing but the staged diff, the HEAD check and
\* the working-tree diff is run, in that order
C26_OnlyWorkingTree ==
    C26_NoCommit =>
        /\ Len(gitLog) <= 3
        /\ \A i \in 1..Len(gitLog) : gitLog[i].cmd = C26_Path[i]
        /\ gitLog[1].kind # "raise"
        /\ diff = ""

\* the step that runs the working-tree diff returns its output as is, and
\* the empty text when it exits non-zero
C26_WorkingTreeStep ==
    (gitpc = "diff" /\ gitLog' # gitLog) =>
        LET last == gitLog'[Len(gitLog')]
        IN /\ C26_NoCommit
           /\ last.cmd = "diff"
           /\ last.kind = "ok" => (gitpc' = "return" /\ run_diff' \in DiffOutputs)
           /\ last.kind = "fail" => (gitpc' = "return" /\ run_diff' = "")
           /\ last.kind = "raise" => pc' = "except"

\* C26: get_diff, when the staged diff is empty or fails and HEAD cannot be
\* resolved (no commit yet): only the working-tree diff is attempted and
\* its output is returned as is, empty or not (empty text if it fails);
\* the upstream-relative, origin/main-relative and last-commit diffs are
\* never attempted in that case.
C26_NoCommitPath == []C26_OnlyWorkingTree /\ [][C26_WorkingTreeStep]_vars

C26_Witness ==
    /\ gitpc = "return"
    /\ gitLog = <<[cmd |-> "diff --staged", kind |-> "fail"],
                  [cmd |-> "rev-parse HEAD", kind |-> "fail"],
                  [cmd |-> "diff", kind |-> "ok"]>>
    /\ run_diff = " \n"

C26_WitnessFailed ==
    /\ gitpc = "return"
    /\ Len(gitLog) = 3
    /\ gitLog[3] = [cmd |-> "diff", kind |-> "fail"]
    /\ run_diff = ""

\* review_code fell back to the placeholder text
C27_FellBack ==
    /\ calls["review_code"] = 1
    /\ posts = <<"ok">>
    /\ "review_text" \in DOMAIN review_data
    /\ review_data.review_text = FallbackText

\* C27: when review_code falls back to the placeholder text "Could not
\* extract review text from API response.", the returned issues list is
\* empty and the returned suggestions list is the one-element list holding
\* that placeholder text itself (the fallback scan matches its word
\* "could"), so the placeholder is shown to the user as a suggestion.
C27_PlaceholderIsSuggestion ==
    C27_FellBack =>
        /\ review_data.issues = <<>>
        /\ review_data.suggestions = <<FallbackText>>
        /\ ~HasError(review_data)
        /\ pc \notin {"returned", "exited"} \/ calls["show_review"] = 1

C27_Witness ==
    /\ C27_FellBack
    /\ review_data.raw_response = [content |-> [kind |-> "list", items |-> <<[type |-> "image"]>>]]
    /\ calls["show_review"] = 1
    /\ pc = "exited"

\* the step is the call of show_review on the windowed surface
C28_Shows == ui = "pyqt" /\ calls'["show_review"] = calls["show_review"] + 1

\* the steps of the windowed surface: the decision starts as cancel, is
\* set to proceed by the Proceed button alone (answered Yes when a critical
\* issue is shown), and a window that is closed or cannot be built gives
\* False
C28_WindowSteps ==
    /\ C28_Shows => user_decision' = FALSE
    /\ (C28_Shows /\ window' # "open") => (proceed' = "False" /\ pc' = "decide")
    /\ (user_decision' /\ ~user_decision) =>
          \/ C5_Click("proceed") /\ ~has_critical
          \/ C5_Click("yes") /\ has_critical /\ Last(clicks) = "proceed"
    /\ C5_Click("close") =>
          (user_decision = FALSE /\ proceed' = "False" /\ pc' = "decide")
    /\ (ui = "pyqt" /\ proceed = "unset" /\ proceed' = "True") => user_decision'

\* a window that was closed, or never shown, ends the run with 1
C28_ClosedBlocks ==
    (ui = "pyqt" /\ calls["show_review"] = 1 /\ pc \in {"returned", "exited"}
       /\ (clicks = <<>> \/ Last(clicks) = "close")) =>
        (proceed = "False" /\ exit_code = 1)

\* C28: the windowed decision surface fails closed: the decision starts as
\* cancel and becomes proceed only through the Proceed button (plus a Yes
\* confirmation when has_critical); if the window is closed without
\* pressing a button, or building or showing the window raises,
\* show_review returns False and run returns 1.
C28_FailsClosed == [][C28_WindowSteps]_vars /\ []C28_ClosedBlocks

C28_Witness ==
    /\ ui = "pyqt"
    /\ pc = "exited"
    /\ has_critical
    /\ clicks = <<"proceed", "no", "close">>
    /\ exit_code = 1

C28_WitnessNotBuilt ==
    /\ ui = "pyqt"
    /\ pc = "exited"
    /\ calls["show_review"] = 1
    /\ window = "none"
    /\ exit_code = 1

(***************************************************************************)
(* run from the return of review_code to the end, for review texts that    *)
(* carry the marker at the start, at the end of the window, one character  *)
(* beyond it, or not at all                                                *)
(***************************************************************************)
CriticalBodies == {<<>>, <<"A">>, Take(BulletNames, MaxBullets)}

CriticalTexts ==
    {p \o WellFormedText(ib, <<"A">>) : p \in Prefixes, ib \in CriticalBodies}
      \cup {p \o "Looks good to me." : p \in Prefixes}

CriticalInit ==
    \E t \in CriticalTexts : \E surface \in UIKinds :
        Reviewed("check_error", TextPayload(t), surface)

CriticalNext ==
    \/ CheckError
    \/ TerminalShow
    \/ \E line \in InputLines : TerminalInput(line)
    \/ TerminalEOF
    \/ \E built \in BOOLEAN : PyQtShow(built)
    \/ ClickCancel
    \/ ClickProceed
    \/ \E yes \in BOOLEAN : ConfirmAnswer(yes)
    \/ CloseWindow
    \/ Decide
    \/ HandleException
    \/ HookExit

SpecCritical == CriticalInit /\ [][CriticalNext]_vars

\* the review text of this run has the marker within its first 100
\* characters
C29_Marked == MarkerInWindow(review_data.review_text)

\* C29: end to end, whenever the API response text has the marker
\* "CRITICAL ISSUES FOUND" within its first 100 characters, the result
\* handed to show_review has an issue containing "critical", so
\* has_critical is true at the decision surface in that run, whatever else
\* the response text contains.
C29_MarkerMakesCritical ==
    C29_Marked =>
        /\ \E i \in 1..Len(review_data.issues) :
              MentionsCritical(review_data.issues[i])
        /\ calls["show_review"] = 1 => has_critical
        /\ pc \in {"returned", "exited"} => calls["show_review"] = 1

C29_Witness ==
    /\ review_data.review_text =
          Filler(CriticalWindow - Len(CriticalMarker)) \o CriticalMarker \o NL
            \o WellFormedText(Take(BulletNames, MaxBullets), <<"A">>)
    /\ ui = "pyqt"
    /\ has_critical
    /\ window = "confirm"
    /\ Len(review_data.issues) = 10

\* one character further the marker is not seen, and the bullets captured
\* keep the marker line out of the keyword scan
C29_WitnessBeyond ==
    /\ review_data.review_text =
          Filler(CriticalWindow - Len(CriticalMarker) + 1) \o CriticalMarker \o NL
            \o WellFormedText(<<"A">>, <<"A">>)
    /\ calls["show_review"] = 1
    /\ ~has_critical

====
